---- MODULE Spec2Model ----
(***************************************************************************)
(* Multi-tenant CRM / real-estate API: token codec, identity resolution    *)
(* and the tenant-scoped CRUD handlers for contacts, deals, properties and *)
(* viewings.                                                               *)
(*                                                                         *)
(* Every request handler is a pure operator from (store, request inputs)   *)
(* to (store after commit, response); the actions apply the operators to   *)
(* the store variable.  Requests are processed one at a time (one          *)
(* transaction per request).                                               *)
(*                                                                         *)
(* Columns kept per table (the others are free-form payload data that no   *)
(* handler branches on):                                                   *)
(*   users      : id, tenant_id, is_active (and email, hashed_password      *)
(*                where login is modelled)                                 *)
(*   contacts   : id, tenant_id, first_name, created_at                    *)
(*   deals      : id, tenant_id, contact_id, stage, created_at             *)
(*   properties : id, tenant_id, title, created_at                         *)
(*   viewings   : id, tenant_id, property_id, contact_id, viewing_date,    *)
(*                created_at                                               *)
(* Optional values: None is <<>>, a present value v is <<v>>.              *)
(***************************************************************************)
EXTENDS Integers, Sequences, FiniteSets, TLC

----------------------------------------------------------------------------
(* Bounds of the model *)

\* number of uuid4() values handed out (rows ever inserted) in one run
MaxIds == 3
\* largest clock value at which a token is issued or checked in SpecToken
MaxTime == 33

(* Program constants *)
ACCESS_TOKEN_EXPIRE_MINUTES == 30
HTTP_200_OK == 200
HTTP_201_CREATED == 201
HTTP_204_NO_CONTENT == 204
HTTP_401_UNAUTHORIZED == 401
HTTP_403_FORBIDDEN == 403
HTTP_404_NOT_FOUND == 404
HTTP_422_UNPROCESSABLE == 422
HTTP_500_INTERNAL == 500
SkipDefault == 0
LimitDefault == 100
LimitMax == 1000

JWT_SECRET == "jwtdffdgdfg513216sf1641"

----------------------------------------------------------------------------
(* Value domains *)

Tenants == {"tenant_a", "tenant_b"}
\* user ids: 1, 2 belong to tenant_a, 3 to tenant_b, 4 is an inactive user of tenant_b
UserIds == 1..4
\* their emails
Emails == <<"user_a@tenanta.com", "agent_a@tenanta.com",
            "user_b@tenantb.com", "former_b@tenantb.com">>
\* ids a client may put in a path or a payload: every uuid ever handed out,
\* and one more that is never handed out
Ids == 1..(MaxIds + 1)
\* the id that is never handed out: it exists in no table of any tenant
Nowhere == MaxIds + 1
\* ids a client puts in a payload as a reference: the first two handed out and
\* the one that is never handed out
RefIds == {1, 2, MaxIds + 1}
NoId == 0

\* strings are tuples of characters, so that ilike can look inside them
Names == {<<"A", "n", "n">>, <<"B", "o", "b">>}
Dates == {1, 2}

None == <<>>
Some(v) == <<v>>
IsNone(o) == o = <<>>

\* dict.update / keyword merge: the entries of b override those of a
Merge(a, b) ==
    [k \in (DOMAIN a) \cup (DOMAIN b) |-> IF k \in DOMAIN b THEN b[k] ELSE a[k]]

\* a pydantic model keeps the declared fields of a payload and ignores the rest
Restrict(f, keys) == [k \in (DOMAIN f) \cap keys |-> f[k]]

UuidStr(x) == [uuid |-> x]
UUID(s) == IF DOMAIN s = {"uuid"} THEN Some(s.uuid) ELSE None

\* `if expires_delta:` - a timedelta is truthy unless it is None or zero
Truthy(expires_delta) == ~IsNone(expires_delta) /\ expires_delta[1] # 0

\* jwt.encode signs the claims with the key; the token carries both
jwt_encode(claims, key) == [claims |-> claims, key |-> key]

create_access_token(user_id, tenant_id, expires_delta, additional_claims, t) ==
    LET expire == IF Truthy(expires_delta)
                  THEN t + expires_delta[1]
                  ELSE t + ACCESS_TOKEN_EXPIRE_MINUTES
        to_encode == [sub |-> UuidStr(user_id),
                      tenant_id |-> UuidStr(tenant_id),
                      exp |-> expire,
                      iat |-> t,
                      type |-> "access"]
    IN jwt_encode(IF IsNone(additional_claims) THEN to_encode
                  ELSE Merge(to_encode, additional_claims[1]),
                  JWT_SECRET)
\* jwt.decode without the check of the exp claim; used to test that
\* TokenAcceptedWhile depends on expiry ending a token's life
jwt_decode_no_expiry(token, key, t) ==
    IF token.key # key THEN None
    ELSE Some(token.claims)

\* jose.jwt.decode: JWTError on a signature made with another key and on
\* exp < now (ExpiredSignatureError); otherwise the claims
jwt_decode(token, key, t) ==
    IF token.key # key THEN None
    ELSE IF "exp" \in DOMAIN token.claims /\ token.claims.exp < t THEN None
    ELSE Some(token.claims)

decode_access_token(token, t) == jwt_decode(token, JWT_SECRET, t)

\* payload.get("sub") of the decoded claims: None when the token does not
\* verify or carries no such claim
get_user_id_from_token(token, t) ==
    LET payload == decode_access_token(token, t) IN
    IF IsNone(payload) \/ payload[1] = <<>> THEN None
    ELSE IF "sub" \in DOMAIN payload[1] THEN Some(payload[1].sub) ELSE None

get_tenant_id_from_token(token, t) ==
    LET payload == decode_access_token(token, t) IN
    IF IsNone(payload) \/ payload[1] = <<>> THEN None
    ELSE IF "tenant_id" \in DOMAIN payload[1] THEN Some(payload[1].tenant_id) ELSE None

----------------------------------------------------------------------------
(* Identity resolution: app/api/deps.py *)

\* what a request was and how it was answered: the route, the tenant of the
\* identity the token resolved to (None when it resolved to none), the id the
\* handler looked up, the status code, the error detail and the entities in the
\* body
Response(op, tenant, id, status, detail, body) ==
    [op |-> op, tenant |-> tenant, id |-> id, status |-> status,
     detail |-> detail, body |-> body]

\* get_current_user without its comparison of the user's tenant with the
\* token's; used to test that StaleTenantClaimRejected depends on it
get_current_user_any_tenant(authorization, users, t) ==
    LET credentials_exception ==
            [status |-> HTTP_401_UNAUTHORIZED,
             detail |-> "Could not validate credentials", user |-> None]
    IN
    IF IsNone(authorization)
    THEN [status |-> HTTP_401_UNAUTHORIZED, detail |-> "Not authenticated", user |-> None]
    ELSE
    LET payload == decode_access_token(authorization[1], t) IN
    IF IsNone(payload) THEN credentials_exception
    ELSE
    LET claims == payload[1] IN
    IF "sub" \notin DOMAIN claims \/ "tenant_id" \notin DOMAIN claims
    THEN credentials_exception
    ELSE
    LET user_id == UUID(claims.sub)
        tenant_id == UUID(claims.tenant_id)
    IN
    IF IsNone(user_id) \/ IsNone(tenant_id) THEN credentials_exception
    ELSE IF user_id[1] \notin DOMAIN users THEN credentials_exception
    ELSE
    LET user == users[user_id[1]] IN
    IF ~user.is_active
    THEN [status |-> HTTP_403_FORBIDDEN, detail |-> "Inactive user", user |-> None]
    ELSE [status |-> HTTP_200_OK, detail |-> "", user |-> Some(user)]

\* get_current_user that compares the tenants before it looks at is_active;
\* used to test that ResolutionOrder depends on the order of the two
get_current_user_tenant_first(authorization, users, t) ==
    LET credentials_exception ==
            [status |-> HTTP_401_UNAUTHORIZED,
             detail |-> "Could not validate credentials", user |-> None]
    IN
    IF IsNone(authorization)
    THEN [status |-> HTTP_401_UNAUTHORIZED, detail |-> "Not authenticated", user |-> None]
    ELSE
    LET payload == decode_access_token(authorization[1], t) IN
    IF IsNone(payload) THEN credentials_exception
    ELSE
    LET claims == payload[1] IN
    IF "sub" \notin DOMAIN claims \/ "tenant_id" \notin DOMAIN claims
    THEN credentials_exception
    ELSE
    LET user_id == UUID(claims.sub)
        tenant_id == UUID(claims.tenant_id)
    IN
    IF IsNone(user_id) \/ IsNone(tenant_id) THEN credentials_exception
    ELSE IF user_id[1] \notin DOMAIN users THEN credentials_exception
    ELSE
    LET user == users[user_id[1]] IN
    IF user.tenant_id # tenant_id[1] THEN credentials_exception
    ELSE IF ~user.is_active
    THEN [status |-> HTTP_403_FORBIDDEN, detail |-> "Inactive user", user |-> None]
    ELSE [status |-> HTTP_200_OK, detail |-> "", user |-> Some(user)]

\* get_current_user without its test of is_active; used to test that
\* BearerTokenRequired depends on it
get_current_user_inactive_allowed(authorization, users, t) ==
    LET credentials_exception ==
            [status |-> HTTP_401_UNAUTHORIZED,
             detail |-> "Could not validate credentials", user |-> None]
    IN
    IF IsNone(authorization)
    THEN [status |-> HTTP_401_UNAUTHORIZED, detail |-> "Not authenticated", user |-> None]
    ELSE
    LET payload == decode_access_token(authorization[1], t) IN
    IF IsNone(payload) THEN credentials_exception
    ELSE
    LET claims == payload[1] IN
    IF "sub" \notin DOMAIN claims \/ "tenant_id" \notin DOMAIN claims
    THEN credentials_exception
    ELSE
    LET user_id == UUID(claims.sub)
        tenant_id == UUID(claims.tenant_id)
    IN
    IF IsNone(user_id) \/ IsNone(tenant_id) THEN credentials_exception
    ELSE IF user_id[1] \notin DOMAIN users THEN credentials_exception
    ELSE
    LET user == users[user_id[1]] IN
    IF user.tenant_id # tenant_id[1] THEN credentials_exception
    ELSE [status |-> HTTP_200_OK, detail |-> "", user |-> Some(user)]

\* authorization: <<>> when the request has no Authorization header, else <<token>>.
\* Result: [status, detail, user]; user is <<the users row>> on success.
get_current_user(authorization, users, t) ==
    LET credentials_exception ==
            [status |-> HTTP_401_UNAUTHORIZED,
             detail |-> "Could not validate credentials", user |-> None]
    IN
    IF IsNone(authorization)
    THEN [status |-> HTTP_401_UNAUTHORIZED, detail |-> "Not authenticated", user |-> None]
    ELSE
    LET payload == decode_access_token(authorization[1], t) IN
    IF IsNone(payload) THEN credentials_exception
    ELSE
    LET claims == payload[1] IN
    IF "sub" \notin DOMAIN claims \/ "tenant_id" \notin DOMAIN claims
    THEN credentials_exception
    ELSE
    LET user_id == UUID(claims.sub)
        tenant_id == UUID(claims.tenant_id)
    IN
    IF IsNone(user_id) \/ IsNone(tenant_id) THEN credentials_exception
    ELSE IF user_id[1] \notin DOMAIN users THEN credentials_exception
    ELSE
    LET user == users[user_id[1]] IN
    IF ~user.is_active
    THEN [status |-> HTTP_403_FORBIDDEN, detail |-> "Inactive user", user |-> None]
    ELSE IF user.tenant_id # tenant_id[1] THEN credentials_exception
    ELSE [status |-> HTTP_200_OK, detail |-> "", user |-> Some(user)]

----------------------------------------------------------------------------
(* Store queries shared by the handlers *)

Rows(table) == {table[i] : i \in DOMAIN table}

\* Result.scalar_one_or_none: the row, None when the query matched no row, and
\* MultipleResultsFound raised when it matched several
scalar_one_or_none(rows) ==
    IF rows = {} THEN [raised |-> FALSE, value |-> None]
    ELSE IF Cardinality(rows) = 1
    THEN [raised |-> FALSE, value |-> Some(CHOOSE r \in rows : TRUE)]
    ELSE [raised |-> TRUE, value |-> None]

----------------------------------------------------------------------------
(* Login: app/api/v1/endpoints/auth.py, app/core/security.py *)

\* pwd_context.hash and pwd_context.verify
hash_password(password) == [bcrypt |-> password]
verify_password(plain_password, hashed_password) ==
    hashed_password = hash_password(plain_password)

\* the answer of a login route: a Response with the headers of the HTTPException
LoginResponse(op, status, detail, headers, body) ==
    Merge(Response(op, None, NoId, status, detail, body), [headers |-> headers])
\* the login steps with a check of the tenant's is_active flag added; used to
\* test that TenantFlagNotConsulted depends on the login reading users alone
authenticate_active_tenant_only(db, op, email, password, t) ==
    LET result == scalar_one_or_none({u \in Rows(db.users) : u.email = email}) IN
    IF result.raised
    THEN [db |-> db,
          resp |-> LoginResponse(op, HTTP_500_INTERNAL, "Internal Server Error", <<>>, <<>>)]
    ELSE
    LET user == result.value IN
    IF IsNone(user) \/ ~verify_password(password, user[1].hashed_password)
    THEN [db |-> db,
          resp |-> LoginResponse(op, HTTP_401_UNAUTHORIZED, "Incorrect email or password",
                                 [WWW_Authenticate |-> "Bearer"], <<>>)]
    ELSE IF ~user[1].is_active \/ ~db.tenants[user[1].tenant_id].is_active
    THEN [db |-> db,
          resp |-> LoginResponse(op, HTTP_403_FORBIDDEN, "Inactive user account", <<>>, <<>>)]
    ELSE
    LET access_token == create_access_token(user[1].id, user[1].tenant_id, None, None, t)
    IN [db |-> db,
        resp |-> LoginResponse(op, HTTP_200_OK, "", <<>>,
                               <<[access_token |-> access_token, token_type |-> "bearer"]>>)]

\* the steps the two login routes share; an exception no route handles
\* (MultipleResultsFound) ends the request as 500
authenticate(db, op, email, password, t) ==
    LET result == scalar_one_or_none({u \in Rows(db.users) : u.email = email}) IN
    IF result.raised
    THEN [db |-> db,
          resp |-> LoginResponse(op, HTTP_500_INTERNAL, "Internal Server Error", <<>>, <<>>)]
    ELSE
    LET user == result.value IN
    IF IsNone(user) \/ ~verify_password(password, user[1].hashed_password)
    THEN [db |-> db,
          resp |-> LoginResponse(op, HTTP_401_UNAUTHORIZED, "Incorrect email or password",
                                 [WWW_Authenticate |-> "Bearer"], <<>>)]
    ELSE IF ~user[1].is_active
    THEN [db |-> db,
          resp |-> LoginResponse(op, HTTP_403_FORBIDDEN, "Inactive user account", <<>>, <<>>)]
    ELSE
    LET access_token == create_access_token(user[1].id, user[1].tenant_id, None, None, t)
    IN [db |-> db,
        resp |-> LoginResponse(op, HTTP_200_OK, "", <<>>,
                               <<[access_token |-> access_token, token_type |-> "bearer"]>>)]

\* POST /auth/login: form_data.username holds the email
login(db, username, password, t) == authenticate(db, "login", username, password, t)

\* POST /auth/login/json
login_json(db, email, password, t) == authenticate(db, "login_json", email, password, t)

Insert(table, row) == [i \in (DOMAIN table) \cup {row.id} |-> IF i = row.id THEN row ELSE table[i]]

Remove(table, gone) == [i \in (DOMAIN table) \ gone |-> table[i]]

\* ORDER BY created_at DESC over a set of rows
RECURSIVE OrderByCreatedAtDesc(_)
OrderByCreatedAtDesc(rows) ==
    IF rows = {} THEN <<>>
    ELSE LET first == CHOOSE r \in rows : \A q \in rows : q.created_at <= r.created_at
         IN <<first>> \o OrderByCreatedAtDesc(rows \ {first})

\* ORDER BY viewing_date (ascending).  SQL leaves the order of rows of one
\* viewing_date to the database: `ties` is the order it happens to return them
\* in, by id ascending ("ASC") or descending ("DESC")
RECURSIVE OrderByViewingDate(_, _)
OrderByViewingDate(rows, ties) ==
    IF rows = {} THEN <<>>
    ELSE LET first == CHOOSE r \in rows : \A q \in rows :
                          \/ r.viewing_date < q.viewing_date
                          \/ /\ r.viewing_date = q.viewing_date
                             /\ IF ties = "ASC" THEN r.id <= q.id ELSE r.id >= q.id
         IN <<first>> \o OrderByViewingDate(rows \ {first}, ties)

\* OFFSET skip LIMIT limit over an ordered result
OffsetLimit(seq, skip, limit) ==
    SubSeq(seq, skip + 1, IF skip + limit < Len(seq) THEN skip + limit ELSE Len(seq))

\* Query(default, ...): the default when the request leaves the parameter out,
\* else the value it gives
Query(default, given) == IF IsNone(given) THEN default ELSE given[1]

\* PaginationValid without the upper bound of limit; used to test that
\* PaginationBounds depends on it
PaginationValid_no_upper_bound(skip, limit) ==
    /\ IsNone(skip) \/ skip[1] >= 0
    /\ IsNone(limit) \/ limit[1] >= 1

\* Query(ge=0) on skip, Query(ge=1, le=1000) on limit: a value the request
\* gives is validated
PaginationValid(skip, limit) ==
    /\ IsNone(skip) \/ skip[1] >= 0
    /\ IsNone(limit) \/ (limit[1] >= 1 /\ limit[1] <= LimitMax)

Lower(c) == CASE c = "A" -> "a" [] c = "B" -> "b" [] c = "N" -> "n"
                 [] c = "O" -> "o" [] OTHER -> c
LowerStr(s) == [i \in 1..Len(s) |-> Lower(s[i])]

\* value ILIKE '%pattern%'
ilike(value, pattern) ==
    \E i \in 0..(Len(value) - Len(pattern)) :
        SubSeq(LowerStr(value), i + 1, i + Len(pattern)) = LowerStr(pattern)

\* the 401/403 answer of a route whose get_current_user dependency raised
Rejected(db, op, id, auth) ==
    [db |-> db, resp |-> Response(op, None, NoId, auth.status, auth.detail, <<>>)]

NotFound(db, op, user, id, detail) ==
    [db |-> db,
     resp |-> Response(op, Some(user.tenant_id), id, HTTP_404_NOT_FOUND, detail, <<>>)]

\* an IntegrityError at commit is not handled by any route: the transaction is
\* rolled back and the request ends as 500
IntegrityError(db, op, user, id) ==
    [db |-> db,
     resp |-> Response(op, Some(user.tenant_id), id, HTTP_500_INTERNAL,
                       "Internal Server Error", <<>>)]

----------------------------------------------------------------------------
(* Contacts: app/api/v1/endpoints/contacts.py, app/schemas/crm.py *)

\* the schemas declare no tenant_id field: pydantic drops one found in a payload
ContactCreate(payload) == Restrict(payload, {"first_name"})
\* a ContactUpdate schema that declares tenant_id; used to test that
\* TenantIdImmutable depends on the schema not declaring it
ContactUpdate_with_tenant_id(payload) == Restrict(payload, {"first_name", "tenant_id"})
ContactUpdate(payload) == Restrict(payload, {"first_name"})

\* nullable=False columns of contacts that a PATCH can reach
ContactRequired == {"first_name"}

\* SetAttrs that puts a stage the payload leaves out back to its default, as
\* model_dump without exclude_unset does; used to test that MergePatchUpdate
\* depends on absent fields being left alone
SetAttrs_defaults_unset(row, update_data) ==
    [k \in DOMAIN row |-> IF k \in DOMAIN update_data /\ ~IsNone(update_data[k])
                          THEN update_data[k][1]
                          ELSE IF k = "stage" THEN "NEW" ELSE row[k]]

\* setattr for each entry of update_data (absent fields stay), then the NOT NULL
\* check the commit makes; patch values are optional values
SetAttrs(row, update_data) ==
    [k \in DOMAIN row |-> IF k \in DOMAIN update_data /\ ~IsNone(update_data[k])
                          THEN update_data[k][1] ELSE row[k]]
NullsRequired(update_data, required) ==
    \E k \in (DOMAIN update_data) \cap required : IsNone(update_data[k])

\* create_contact that takes the tenant_id from the payload when it has one; used
\* to test that CreateStampsTenant depends on where the tenant_id comes from
create_contact_payload_tenant(db, authorization, payload, new_id, t) ==
    LET auth == get_current_user(authorization, db.users, t) IN
    IF auth.status # HTTP_200_OK THEN Rejected(db, "create_contact", NoId, auth)
    ELSE
    LET current_user == auth.user[1]
        contact_in == ContactCreate(payload)
        contact == Merge(contact_in, [id |-> new_id,
                                      tenant_id |-> IF "tenant_id" \in DOMAIN payload
                                                    THEN payload.tenant_id
                                                    ELSE current_user.tenant_id,
                                      created_at |-> t])
    IN [db |-> [db EXCEPT !.contacts = Insert(@, contact)],
        resp |-> Response("create_contact", Some(current_user.tenant_id), new_id,
                          HTTP_201_CREATED, "", <<contact>>)]

create_contact(db, authorization, payload, new_id, t) ==
    LET auth == get_current_user(authorization, db.users, t) IN
    IF auth.status # HTTP_200_OK THEN Rejected(db, "create_contact", NoId, auth)
    ELSE
    LET current_user == auth.user[1]
        contact_in == ContactCreate(payload)
        contact == Merge(contact_in, [id |-> new_id,
                                      tenant_id |-> current_user.tenant_id,
                                      created_at |-> t])
    IN [db |-> [db EXCEPT !.contacts = Insert(@, contact)],
        resp |-> Response("create_contact", Some(current_user.tenant_id), new_id,
                          HTTP_201_CREATED, "", <<contact>>)]

\* list_contacts with the tenant_id condition of its query left out; used to
\* test that ListsAreTenantScoped depends on the condition
list_contacts_any_tenant(db, authorization, search, skip, limit, t) ==
    LET auth == get_current_user(authorization, db.users, t) IN
    IF auth.status # HTTP_200_OK THEN Rejected(db, "list_contacts", NoId, auth)
    ELSE
    LET current_user == auth.user[1] IN
    IF ~PaginationValid(skip, limit)
    THEN [db |-> db,
          resp |-> Response("list_contacts", Some(current_user.tenant_id), NoId,
                            HTTP_422_UNPROCESSABLE, "validation error", <<>>)]
    ELSE
    LET base == Rows(db.contacts)
        query == IF ~IsNone(search) /\ search[1] # <<>>
                 THEN {c \in base : ilike(c.first_name, search[1])}
                 ELSE base
    IN [db |-> db,
        resp |-> Response("list_contacts", Some(current_user.tenant_id), NoId, HTTP_200_OK, "",
                          OffsetLimit(OrderByCreatedAtDesc(query),
                                      Query(SkipDefault, skip), Query(LimitDefault, limit)))]

list_contacts(db, authorization, search, skip, limit, t) ==
    LET auth == get_current_user(authorization, db.users, t) IN
    IF auth.status # HTTP_200_OK THEN Rejected(db, "list_contacts", NoId, auth)
    ELSE
    LET current_user == auth.user[1] IN
    IF ~PaginationValid(skip, limit)
    THEN [db |-> db,
          resp |-> Response("list_contacts", Some(current_user.tenant_id), NoId,
                            HTTP_422_UNPROCESSABLE, "validation error", <<>>)]
    ELSE
    LET base == {c \in Rows(db.contacts) : c.tenant_id = current_user.tenant_id}
        \* `if search:` - None and the empty string apply no filter
        query == IF ~IsNone(search) /\ search[1] # <<>>
                 THEN {c \in base : ilike(c.first_name, search[1])}
                 ELSE base
    IN [db |-> db,
        resp |-> Response("list_contacts", Some(current_user.tenant_id), NoId, HTTP_200_OK, "",
                          OffsetLimit(OrderByCreatedAtDesc(query),
                                      Query(SkipDefault, skip), Query(LimitDefault, limit)))]

get_contact(db, authorization, contact_id, t) ==
    LET auth == get_current_user(authorization, db.users, t) IN
    IF auth.status # HTTP_200_OK THEN Rejected(db, "get_contact", contact_id, auth)
    ELSE
    LET current_user == auth.user[1] IN
    IF ~(contact_id \in DOMAIN db.contacts
         /\ db.contacts[contact_id].tenant_id = current_user.tenant_id)
    THEN NotFound(db, "get_contact", current_user, contact_id, "Contact not found")
    ELSE [db |-> db,
          resp |-> Response("get_contact", Some(current_user.tenant_id), contact_id, HTTP_200_OK, "",
                            <<db.contacts[contact_id]>>)]

update_contact(db, authorization, contact_id, payload, t) ==
    LET auth == get_current_user(authorization, db.users, t) IN
    IF auth.status # HTTP_200_OK THEN Rejected(db, "update_contact", contact_id, auth)
    ELSE
    LET current_user == auth.user[1] IN
    IF ~(contact_id \in DOMAIN db.contacts
         /\ db.contacts[contact_id].tenant_id = current_user.tenant_id)
    THEN NotFound(db, "update_contact", current_user, contact_id, "Contact not found")
    ELSE
    LET update_data == ContactUpdate(payload)
        contact == SetAttrs(db.contacts[contact_id], update_data)
    IN IF NullsRequired(update_data, ContactRequired)
       THEN IntegrityError(db, "update_contact", current_user, contact_id)
       ELSE [db |-> [db EXCEPT !.contacts[contact_id] = contact],
             resp |-> Response("update_contact", Some(current_user.tenant_id), contact_id,
                               HTTP_200_OK, "", <<contact>>)]

\* delete_contact that deletes the contact's row alone; used to test that
\* DeletesCascade depends on the cascade
delete_contact_alone(db, authorization, contact_id, t) ==
    LET auth == get_current_user(authorization, db.users, t) IN
    IF auth.status # HTTP_200_OK THEN Rejected(db, "delete_contact", contact_id, auth)
    ELSE
    LET current_user == auth.user[1] IN
    IF ~(contact_id \in DOMAIN db.contacts
         /\ db.contacts[contact_id].tenant_id = current_user.tenant_id)
    THEN NotFound(db, "delete_contact", current_user, contact_id, "Contact not found")
    ELSE [db |-> [db EXCEPT !.contacts = Remove(@, {contact_id})],
          resp |-> Response("delete_contact", Some(current_user.tenant_id), contact_id,
                            HTTP_204_NO_CONTENT, "", <<>>)]
\* delete_contact on a database that does not enforce the foreign keys: the
\* ORM cascade of Contact.deals removes the deals, the viewings stay; used to
\* test that NoDanglingViewing depends on ON DELETE CASCADE of
\* Viewing.contact_id
delete_contact_orm_cascade_only(db, authorization, contact_id, t) ==
    LET auth == get_current_user(authorization, db.users, t) IN
    IF auth.status # HTTP_200_OK THEN Rejected(db, "delete_contact", contact_id, auth)
    ELSE
    LET current_user == auth.user[1] IN
    IF ~(contact_id \in DOMAIN db.contacts
         /\ db.contacts[contact_id].tenant_id = current_user.tenant_id)
    THEN NotFound(db, "delete_contact", current_user, contact_id, "Contact not found")
    ELSE [db |-> [db EXCEPT
                    !.contacts = Remove(@, {contact_id}),
                    !.deals = Remove(@, {d \in DOMAIN @ : @[d].contact_id = contact_id})],
          resp |-> Response("delete_contact", Some(current_user.tenant_id), contact_id,
                            HTTP_204_NO_CONTENT, "", <<>>)]

\* db.delete(contact): the ORM cascade of Contact.deals deletes the contact's
\* deals, and the ondelete="CASCADE" foreign key of viewings.contact_id makes the
\* database delete the viewings of the contact
delete_contact(db, authorization, contact_id, t) ==
    LET auth == get_current_user(authorization, db.users, t) IN
    IF auth.status # HTTP_200_OK THEN Rejected(db, "delete_contact", contact_id, auth)
    ELSE
    LET current_user == auth.user[1] IN
    IF ~(contact_id \in DOMAIN db.contacts
         /\ db.contacts[contact_id].tenant_id = current_user.tenant_id)
    THEN NotFound(db, "delete_contact", current_user, contact_id, "Contact not found")
    ELSE [db |-> [db EXCEPT
                    !.contacts = Remove(@, {contact_id}),
                    !.deals = Remove(@, {d \in DOMAIN @ : @[d].contact_id = contact_id}),
                    !.viewings = Remove(@, {v \in DOMAIN @ : @[v].contact_id = contact_id})],
          resp |-> Response("delete_contact", Some(current_user.tenant_id), contact_id,
                            HTTP_204_NO_CONTENT, "", <<>>)]

----------------------------------------------------------------------------
(* Deals: app/api/v1/endpoints/deals.py, app/schemas/crm.py *)

\* DealCreate: contact_id is required, stage defaults to NEW
DealCreate(payload) ==
    Merge([stage |-> "NEW"], Restrict(payload, {"contact_id", "stage"}))
DealUpdate(payload) == Restrict(payload, {"contact_id", "stage"})
DealRequired == {"contact_id", "stage"}

\* create_deal that looks the contact up by id alone; used to test that
\* DealCreationScoped depends on the tenant_id condition of the lookup
create_deal_any_tenant(db, authorization, payload, new_id, t) ==
    LET auth == get_current_user(authorization, db.users, t) IN
    IF auth.status # HTTP_200_OK THEN Rejected(db, "create_deal", NoId, auth)
    ELSE
    LET current_user == auth.user[1]
        deal_in == DealCreate(payload)
    IN
    IF deal_in.contact_id \notin DOMAIN db.contacts
    THEN NotFound(db, "create_deal", current_user, NoId,
                  "Contact not found or does not belong to your tenant")
    ELSE
    LET deal == Merge(deal_in, [id |-> new_id,
                                tenant_id |-> current_user.tenant_id,
                                created_at |-> t])
    IN [db |-> [db EXCEPT !.deals = Insert(@, deal)],
        resp |-> Response("create_deal", Some(current_user.tenant_id), new_id,
                          HTTP_201_CREATED, "", <<deal>>)]

create_deal(db, authorization, payload, new_id, t) ==
    LET auth == get_current_user(authorization, db.users, t) IN
    IF auth.status # HTTP_200_OK THEN Rejected(db, "create_deal", NoId, auth)
    ELSE
    LET current_user == auth.user[1]
        deal_in == DealCreate(payload)
    IN
    IF ~(deal_in.contact_id \in DOMAIN db.contacts
         /\ db.contacts[deal_in.contact_id].tenant_id = current_user.tenant_id)
    THEN NotFound(db, "create_deal", current_user, NoId,
                  "Contact not found or does not belong to your tenant")
    ELSE
    LET deal == Merge(deal_in, [id |-> new_id,
                                tenant_id |-> current_user.tenant_id,
                                created_at |-> t])
    IN [db |-> [db EXCEPT !.deals = Insert(@, deal)],
        resp |-> Response("create_deal", Some(current_user.tenant_id), new_id,
                          HTTP_201_CREATED, "", <<deal>>)]

list_deals(db, authorization, stage, contact_id, skip, limit, t) ==
    LET auth == get_current_user(authorization, db.users, t) IN
    IF auth.status # HTTP_200_OK THEN Rejected(db, "list_deals", NoId, auth)
    ELSE
    LET current_user == auth.user[1] IN
    IF ~PaginationValid(skip, limit)
    THEN [db |-> db,
          resp |-> Response("list_deals", Some(current_user.tenant_id), NoId,
                            HTTP_422_UNPROCESSABLE, "validation error", <<>>)]
    ELSE
    LET base == {d \in Rows(db.deals) : d.tenant_id = current_user.tenant_id}
        by_stage == IF ~IsNone(stage) THEN {d \in base : d.stage = stage[1]} ELSE base
        query == IF ~IsNone(contact_id)
                 THEN {d \in by_stage : d.contact_id = contact_id[1]}
                 ELSE by_stage
    IN [db |-> db,
        resp |-> Response("list_deals", Some(current_user.tenant_id), NoId, HTTP_200_OK, "",
                          OffsetLimit(OrderByCreatedAtDesc(query),
                                      Query(SkipDefault, skip), Query(LimitDefault, limit)))]

get_deal(db, authorization, deal_id, t) ==
    LET auth == get_current_user(authorization, db.users, t) IN
    IF auth.status # HTTP_200_OK THEN Rejected(db, "get_deal", deal_id, auth)
    ELSE
    LET current_user == auth.user[1] IN
    IF ~(deal_id \in DOMAIN db.deals
         /\ db.deals[deal_id].tenant_id = current_user.tenant_id)
    THEN NotFound(db, "get_deal", current_user, deal_id, "Deal not found")
    ELSE [db |-> db,
          resp |-> Response("get_deal", Some(current_user.tenant_id), deal_id, HTTP_200_OK, "",
                            <<db.deals[deal_id]>>)]

\* update_deal that looks the new contact up by id alone; used to test that
\* SameTenantReferences depends on the tenant_id condition of the lookup
update_deal_any_contact(db, authorization, deal_id, payload, t) ==
    LET auth == get_current_user(authorization, db.users, t) IN
    IF auth.status # HTTP_200_OK THEN Rejected(db, "update_deal", deal_id, auth)
    ELSE
    LET current_user == auth.user[1] IN
    IF ~(deal_id \in DOMAIN db.deals
         /\ db.deals[deal_id].tenant_id = current_user.tenant_id)
    THEN NotFound(db, "update_deal", current_user, deal_id, "Deal not found")
    ELSE
    LET update_data == DealUpdate(payload) IN
    IF /\ "contact_id" \in DOMAIN update_data
       /\ ~IsNone(update_data.contact_id)
       /\ update_data.contact_id[1] \notin DOMAIN db.contacts
    THEN NotFound(db, "update_deal", current_user, deal_id,
                  "Contact not found or does not belong to your tenant")
    ELSE
    LET deal == SetAttrs(db.deals[deal_id], update_data) IN
    IF NullsRequired(update_data, DealRequired)
    THEN IntegrityError(db, "update_deal", current_user, deal_id)
    ELSE [db |-> [db EXCEPT !.deals[deal_id] = deal],
          resp |-> Response("update_deal", Some(current_user.tenant_id), deal_id,
                            HTTP_200_OK, "", <<deal>>)]

\* update_deal that has set the other fields of the patch when it finds that
\* the contact is not the tenant's; used to test that ReferenceRevalidated
\* depends on the check coming before any field is set
update_deal_fields_first(db, authorization, deal_id, payload, t) ==
    LET auth == get_current_user(authorization, db.users, t) IN
    IF auth.status # HTTP_200_OK THEN Rejected(db, "update_deal", deal_id, auth)
    ELSE
    LET current_user == auth.user[1] IN
    IF ~(deal_id \in DOMAIN db.deals
         /\ db.deals[deal_id].tenant_id = current_user.tenant_id)
    THEN NotFound(db, "update_deal", current_user, deal_id, "Deal not found")
    ELSE
    LET update_data == DealUpdate(payload) IN
    IF /\ "contact_id" \in DOMAIN update_data
       /\ ~IsNone(update_data.contact_id)
       /\ ~(update_data.contact_id[1] \in DOMAIN db.contacts
            /\ db.contacts[update_data.contact_id[1]].tenant_id = current_user.tenant_id)
    THEN NotFound([db EXCEPT !.deals[deal_id] =
                       SetAttrs(@, Restrict(update_data, {"stage"}))],
                  "update_deal", current_user, deal_id,
                  "Contact not found or does not belong to your tenant")
    ELSE
    LET deal == SetAttrs(db.deals[deal_id], update_data) IN
    IF NullsRequired(update_data, DealRequired)
    THEN IntegrityError(db, "update_deal", current_user, deal_id)
    ELSE [db |-> [db EXCEPT !.deals[deal_id] = deal],
          resp |-> Response("update_deal", Some(current_user.tenant_id), deal_id,
                            HTTP_200_OK, "", <<deal>>)]

update_deal(db, authorization, deal_id, payload, t) ==
    LET auth == get_current_user(authorization, db.users, t) IN
    IF auth.status # HTTP_200_OK THEN Rejected(db, "update_deal", deal_id, auth)
    ELSE
    LET current_user == auth.user[1] IN
    IF ~(deal_id \in DOMAIN db.deals
         /\ db.deals[deal_id].tenant_id = current_user.tenant_id)
    THEN NotFound(db, "update_deal", current_user, deal_id, "Deal not found")
    ELSE
    LET update_data == DealUpdate(payload) IN
    IF /\ "contact_id" \in DOMAIN update_data
       /\ ~IsNone(update_data.contact_id)
       /\ ~(update_data.contact_id[1] \in DOMAIN db.contacts
            /\ db.contacts[update_data.contact_id[1]].tenant_id = current_user.tenant_id)
    THEN NotFound(db, "update_deal", current_user, deal_id,
                  "Contact not found or does not belong to your tenant")
    ELSE
    LET deal == SetAttrs(db.deals[deal_id], update_data) IN
    IF NullsRequired(update_data, DealRequired)
    THEN IntegrityError(db, "update_deal", current_user, deal_id)
    ELSE [db |-> [db EXCEPT !.deals[deal_id] = deal],
          resp |-> Response("update_deal", Some(current_user.tenant_id), deal_id,
                            HTTP_200_OK, "", <<deal>>)]

delete_deal(db, authorization, deal_id, t) ==
    LET auth == get_current_user(authorization, db.users, t) IN
    IF auth.status # HTTP_200_OK THEN Rejected(db, "delete_deal", deal_id, auth)
    ELSE
    LET current_user == auth.user[1] IN
    IF ~(deal_id \in DOMAIN db.deals
         /\ db.deals[deal_id].tenant_id = current_user.tenant_id)
    THEN NotFound(db, "delete_deal", current_user, deal_id, "Deal not found")
    ELSE [db |-> [db EXCEPT !.deals = Remove(@, {deal_id})],
          resp |-> Response("delete_deal", Some(current_user.tenant_id), deal_id,
                            HTTP_204_NO_CONTENT, "", <<>>)]

----------------------------------------------------------------------------
(* Properties and viewings: app/api/v1/endpoints/properties.py,             *)
(* app/schemas/real_estate.py                                               *)

PropertyCreate(payload) == Restrict(payload, {"title"})
PropertyUpdate(payload) == Restrict(payload, {"title"})
PropertyRequired == {"title"}

create_property(db, authorization, payload, new_id, t) ==
    LET auth == get_current_user(authorization, db.users, t) IN
    IF auth.status # HTTP_200_OK THEN Rejected(db, "create_property", NoId, auth)
    ELSE
    LET current_user == auth.user[1]
        property_in == PropertyCreate(payload)
        property_obj == Merge(property_in, [id |-> new_id,
                                            tenant_id |-> current_user.tenant_id,
                                            created_at |-> t])
    IN [db |-> [db EXCEPT !.properties = Insert(@, property_obj)],
        resp |-> Response("create_property", Some(current_user.tenant_id), new_id,
                          HTTP_201_CREATED, "", <<property_obj>>)]

\* list_properties that starts its window one row too late; used to test that
\* OwnTenantVisible depends on the window
list_properties_late_window(db, authorization, skip, limit, t) ==
    LET auth == get_current_user(authorization, db.users, t) IN
    IF auth.status # HTTP_200_OK THEN Rejected(db, "list_properties", NoId, auth)
    ELSE
    LET current_user == auth.user[1] IN
    IF ~PaginationValid(skip, limit)
    THEN [db |-> db,
          resp |-> Response("list_properties", Some(current_user.tenant_id), NoId,
                            HTTP_422_UNPROCESSABLE, "validation error", <<>>)]
    ELSE
    LET query == {p \in Rows(db.properties) : p.tenant_id = current_user.tenant_id}
    IN [db |-> db,
        resp |-> Response("list_properties", Some(current_user.tenant_id), NoId, HTTP_200_OK, "",
                          OffsetLimit(OrderByCreatedAtDesc(query),
                                      Query(SkipDefault, skip) + 1,
                                      Query(LimitDefault, limit)))]

\* the optional filters of list_properties (property_type, status, min_price,
\* max_price) are on columns outside the model: the unfiltered query is modelled
list_properties(db, authorization, skip, limit, t) ==
    LET auth == get_current_user(authorization, db.users, t) IN
    IF auth.status # HTTP_200_OK THEN Rejected(db, "list_properties", NoId, auth)
    ELSE
    LET current_user == auth.user[1] IN
    IF ~PaginationValid(skip, limit)
    THEN [db |-> db,
          resp |-> Response("list_properties", Some(current_user.tenant_id), NoId,
                            HTTP_422_UNPROCESSABLE, "validation error", <<>>)]
    ELSE
    LET query == {p \in Rows(db.properties) : p.tenant_id = current_user.tenant_id}
    IN [db |-> db,
        resp |-> Response("list_properties", Some(current_user.tenant_id), NoId, HTTP_200_OK, "",
                          OffsetLimit(OrderByCreatedAtDesc(query),
                                      Query(SkipDefault, skip), Query(LimitDefault, limit)))]

\* get_property with the tenant_id condition of its query left out; used to
\* test that CrossTenantIsNotFound depends on the condition
get_property_any_tenant(db, authorization, property_id, t) ==
    LET auth == get_current_user(authorization, db.users, t) IN
    IF auth.status # HTTP_200_OK THEN Rejected(db, "get_property", property_id, auth)
    ELSE
    LET current_user == auth.user[1] IN
    IF property_id \notin DOMAIN db.properties
    THEN NotFound(db, "get_property", current_user, property_id, "Property not found")
    ELSE [db |-> db,
          resp |-> Response("get_property", Some(current_user.tenant_id), property_id, HTTP_200_OK, "",
                            <<db.properties[property_id]>>)]

get_property(db, authorization, property_id, t) ==
    LET auth == get_current_user(authorization, db.users, t) IN
    IF auth.status # HTTP_200_OK THEN Rejected(db, "get_property", property_id, auth)
    ELSE
    LET current_user == auth.user[1] IN
    IF ~(property_id \in DOMAIN db.properties
         /\ db.properties[property_id].tenant_id = current_user.tenant_id)
    THEN NotFound(db, "get_property", current_user, property_id, "Property not found")
    ELSE [db |-> db,
          resp |-> Response("get_property", Some(current_user.tenant_id), property_id, HTTP_200_OK, "",
                            <<db.properties[property_id]>>)]
\* update_property that selects the property by id alone, writes the patch
\* and only then compares tenants; used to test that RejectedChangesNothing
\* depends on the tenant condition coming before the write
update_property_write_first(db, authorization, property_id, payload, t) ==
    LET auth == get_current_user(authorization, db.users, t) IN
    IF auth.status # HTTP_200_OK THEN Rejected(db, "update_property", property_id, auth)
    ELSE
    LET current_user == auth.user[1] IN
    IF property_id \notin DOMAIN db.properties
    THEN NotFound(db, "update_property", current_user, property_id, "Property not found")
    ELSE
    LET update_data == PropertyUpdate(payload)
        property_obj == SetAttrs(db.properties[property_id], update_data)
        written == [db EXCEPT !.properties[property_id] = property_obj]
    IN IF NullsRequired(update_data, PropertyRequired)
       THEN IntegrityError(db, "update_property", current_user, property_id)
       ELSE IF db.properties[property_id].tenant_id # current_user.tenant_id
       THEN NotFound(written, "update_property", current_user, property_id,
                     "Property not found")
       ELSE [db |-> written,
             resp |-> Response("update_property", Some(current_user.tenant_id), property_id,
                               HTTP_200_OK, "", <<property_obj>>)]

update_property(db, authorization, property_id, payload, t) ==
    LET auth == get_current_user(authorization, db.users, t) IN
    IF auth.status # HTTP_200_OK THEN Rejected(db, "update_property", property_id, auth)
    ELSE
    LET current_user == auth.user[1] IN
    IF ~(property_id \in DOMAIN db.properties
         /\ db.properties[property_id].tenant_id = current_user.tenant_id)
    THEN NotFound(db, "update_property", current_user, property_id, "Property not found")
    ELSE
    LET update_data == PropertyUpdate(payload)
        property_obj == SetAttrs(db.properties[property_id], update_data)
    IN IF NullsRequired(update_data, PropertyRequired)
       THEN IntegrityError(db, "update_property", current_user, property_id)
       ELSE [db |-> [db EXCEPT !.properties[property_id] = property_obj],
             resp |-> Response("update_property", Some(current_user.tenant_id), property_id,
                               HTTP_200_OK, "", <<property_obj>>)]

\* db.delete(property_obj): the ORM cascade of Property.viewings deletes the
\* property's viewings
delete_property(db, authorization, property_id, t) ==
    LET auth == get_current_user(authorization, db.users, t) IN
    IF auth.status # HTTP_200_OK THEN Rejected(db, "delete_property", property_id, auth)
    ELSE
    LET current_user == auth.user[1] IN
    IF ~(property_id \in DOMAIN db.properties
         /\ db.properties[property_id].tenant_id = current_user.tenant_id)
    THEN NotFound(db, "delete_property", current_user, property_id, "Property not found")
    ELSE [db |-> [db EXCEPT
                    !.properties = Remove(@, {property_id}),
                    !.viewings = Remove(@, {v \in DOMAIN @ : @[v].property_id = property_id})],
          resp |-> Response("delete_property", Some(current_user.tenant_id), property_id,
                            HTTP_204_NO_CONTENT, "", <<>>)]

\* ViewingCreate: the body's own property_id is required by the schema and then
\* ignored, the path's property_id is the one stored
ViewingCreate(payload) == Restrict(payload, {"property_id", "contact_id", "viewing_date"})

\* create_viewing that looks the contact up by id alone; used to test that
\* NonInterference depends on the tenant_id condition of the lookup
create_viewing_any_contact(db, authorization, property_id, payload, new_id, t) ==
    LET auth == get_current_user(authorization, db.users, t) IN
    IF auth.status # HTTP_200_OK THEN Rejected(db, "create_viewing", property_id, auth)
    ELSE
    LET current_user == auth.user[1]
        viewing_in == ViewingCreate(payload)
    IN
    IF ~(property_id \in DOMAIN db.properties
         /\ db.properties[property_id].tenant_id = current_user.tenant_id)
    THEN NotFound(db, "create_viewing", current_user, property_id, "Property not found")
    ELSE
    IF viewing_in.contact_id \notin DOMAIN db.contacts
    THEN NotFound(db, "create_viewing", current_user, property_id, "Contact not found")
    ELSE
    LET viewing == [id |-> new_id,
                    property_id |-> property_id,
                    contact_id |-> viewing_in.contact_id,
                    viewing_date |-> viewing_in.viewing_date,
                    tenant_id |-> current_user.tenant_id,
                    created_at |-> t]
    IN [db |-> [db EXCEPT !.viewings = Insert(@, viewing)],
        resp |-> Response("create_viewing", Some(current_user.tenant_id), property_id,
                          HTTP_201_CREATED, "", <<viewing>>)]

create_viewing(db, authorization, property_id, payload, new_id, t) ==
    LET auth == get_current_user(authorization, db.users, t) IN
    IF auth.status # HTTP_200_OK THEN Rejected(db, "create_viewing", property_id, auth)
    ELSE
    LET current_user == auth.user[1]
        viewing_in == ViewingCreate(payload)
    IN
    IF ~(property_id \in DOMAIN db.properties
         /\ db.properties[property_id].tenant_id = current_user.tenant_id)
    THEN NotFound(db, "create_viewing", current_user, property_id, "Property not found")
    ELSE
    IF ~(viewing_in.contact_id \in DOMAIN db.contacts
         /\ db.contacts[viewing_in.contact_id].tenant_id = current_user.tenant_id)
    THEN NotFound(db, "create_viewing", current_user, property_id, "Contact not found")
    ELSE
    LET viewing == [id |-> new_id,
                    property_id |-> property_id,
                    contact_id |-> viewing_in.contact_id,
                    viewing_date |-> viewing_in.viewing_date,
                    tenant_id |-> current_user.tenant_id,
                    created_at |-> t]
    IN [db |-> [db EXCEPT !.viewings = Insert(@, viewing)],
        resp |-> Response("create_viewing", Some(current_user.tenant_id), property_id,
                          HTTP_201_CREATED, "", <<viewing>>)]

list_viewings(db, authorization, property_id, ties, t) ==
    LET auth == get_current_user(authorization, db.users, t) IN
    IF auth.status # HTTP_200_OK THEN Rejected(db, "list_viewings", property_id, auth)
    ELSE
    LET current_user == auth.user[1] IN
    IF ~(property_id \in DOMAIN db.properties
         /\ db.properties[property_id].tenant_id = current_user.tenant_id)
    THEN NotFound(db, "list_viewings", current_user, property_id, "Property not found")
    ELSE
    LET query == {v \in Rows(db.viewings) :
                    v.property_id = property_id /\ v.tenant_id = current_user.tenant_id}
    IN [db |-> db,
        resp |-> Response("list_viewings", Some(current_user.tenant_id), property_id, HTTP_200_OK, "",
                          OrderByViewingDate(query, ties))]

----------------------------------------------------------------------------
(* The service: one store, requests handled one at a time *)

VARIABLES
    db,         \* the store: users, contacts, deals, properties, viewings
    next_id,    \* the next value uuid4() hands out
    now,        \* the clock (datetime.utcnow)
    resp,       \* the response of the request being answered, or Idle
    prev,       \* history: the store as it was when that request arrived
    created_by, \* history: for each row in the store, the tenant of the identity
                \* whose create request inserted it
    db2,        \* SpecTwoRuns: the store of the second run
    resp2,      \* SpecTwoRuns: the response of the second run
    issue,      \* SpecToken: the arguments of create_access_token
    token,      \* SpecToken, SpecAuth: the token issued and when, or None
    clock,      \* SpecToken: the time
    decoded,    \* SpecToken: the last result of decode_access_token and when
    inflight    \* SpecRace: the requests being served concurrently, each with
                \* its own database session

vars == <<db, next_id, now, resp, prev, created_by, db2, resp2,
          issue, token, clock, decoded, inflight>>

\* the variables of the service, of the second run and of the token codec
service_vars == <<db, next_id, now, resp, prev, created_by>>
second_run_vars == <<db2, resp2>>
token_vars == <<issue, token, clock, decoded>>

Idle == [op |-> "idle"]

\* the users table as provisioned (bootstrap.py, tests/conftest.py)
InitUsers ==
    [u \in UserIds |->
        [id |-> u,
         tenant_id |-> IF u <= 2 THEN "tenant_a" ELSE "tenant_b",
         is_active |-> u # 4]]

\* the tenants table as provisioned: both tenants active
InitTenants == [T \in Tenants |-> [id |-> T, is_active |-> TRUE]]

EmptyTable == <<>>

InitDb == [tenants |-> InitTenants, users |-> InitUsers, contacts |-> EmptyTable,
           deals |-> EmptyTable, properties |-> EmptyTable, viewings |-> EmptyTable]

Init ==
    /\ db = InitDb
    /\ next_id = 1
    /\ now = 0
    /\ resp = Idle
    /\ prev = InitDb
    /\ created_by = <<>>
    /\ db2 = EmptyTable
    /\ inflight = <<>>
    /\ resp2 = Idle
    /\ issue = None
    /\ token = None
    /\ clock = 0
    /\ decoded = None

\* a token signed with a key that is not the server's
ForgedToken ==
    jwt_encode([sub |-> UuidStr(1), tenant_id |-> UuidStr("tenant_a"),
                exp |-> MaxTime, iat |-> 0, type |-> "access"], "not-the-secret")

\* tokens the server issued at time t for the given users, as login does
IssuedTokens(users, ids, t) ==
    {create_access_token(u, users[u].tenant_id, None, None, t) : u \in ids}

\* what a client can put in the Authorization header at time t: nothing, a forged
\* token, a token issued just now, or one issued so long ago that it has expired
Authorizations(users, t) ==
    {None, Some(ForgedToken)}
    \cup {Some(tok) : tok \in IssuedTokens(users, DOMAIN users, t)}
    \cup {Some(tok) : tok \in IssuedTokens(users, {1}, t - ACCESS_TOKEN_EXPIRE_MINUTES - 1)}

\* the same without the second user of tenant_a: the requests that write are
\* explored with one identity per tenant
WriterAuthorizations(users, t) ==
    Authorizations(users, t) \ {Some(tok) : tok \in IssuedTokens(users, {2}, t)}

\* a payload with a tenant_id of the client's choosing added
WithTenant(payloads) ==
    {Merge(p, [tenant_id |-> tn]) : p \in payloads, tn \in Tenants}
\* the same for a PATCH body, whose values are optional values
PatchWithTenant(payloads) ==
    {Merge(p, [tenant_id |-> Some(tn)]) : p \in payloads, tn \in Tenants}

Bob == <<"B", "o", "b">>

ContactPayloads ==
    {[first_name |-> n] : n \in Names} \cup WithTenant({[first_name |-> Bob]})
ContactPatches ==
    LET plain == {<<>>, [first_name |-> Some(Bob)], [first_name |-> None]}
    IN plain \cup PatchWithTenant({<<>>, [first_name |-> Some(Bob)]})
DealPayloads ==
    LET plain == {[contact_id |-> c] : c \in RefIds}
                 \cup {[contact_id |-> c, stage |-> "NEGOTIATION"] : c \in RefIds}
    IN plain \cup WithTenant({[contact_id |-> c] : c \in RefIds \ {MaxIds + 1}})
DealPatches ==
    LET plain == {<<>>, [stage |-> Some("NEGOTIATION")], [stage |-> None],
                  [contact_id |-> None]}
                 \cup {[contact_id |-> Some(c)] : c \in RefIds}
                 \cup {[contact_id |-> Some(c), stage |-> Some("NEGOTIATION")] :
                          c \in RefIds}
    IN plain \cup PatchWithTenant({<<>>, [stage |-> Some("NEGOTIATION")]})
PropertyPayloads == {[title |-> "Flat"]} \cup WithTenant({[title |-> "Flat"]})
PropertyPatches ==
    LET plain == {<<>>, [title |-> Some("House")], [title |-> None]}
    IN plain \cup PatchWithTenant({<<>>, [title |-> Some("House")]})
ViewingPayloads ==
    LET plain == {[property_id |-> MaxIds + 1, contact_id |-> c, viewing_date |-> d] :
                    c \in RefIds, d \in Dates}
    IN plain \cup WithTenant({[property_id |-> MaxIds + 1, contact_id |-> c,
                              viewing_date |-> 1] : c \in RefIds \ {MaxIds + 1}})
SearchInputs == {None, Some(<<>>), Some(<<"a", "N">>)}
DealFilters == {<<None, None>>, <<Some("NEW"), None>>, <<None, Some(1)>>}
PageInputs == {<<None, None>>, <<Some(1), Some(1)>>, <<Some(0), Some(1)>>,
               <<Some(-1), Some(1)>>, <<Some(0), Some(0)>>,
               <<Some(0), Some(LimitMax)>>, <<Some(0), Some(LimitMax + 1)>>}
\* a list is asked for with a filter and the default page, or with a page and
\* no filter
ContactListInputs == (SearchInputs \X {<<None, None>>}) \cup ({None} \X PageInputs)
DealListInputs == (DealFilters \X {<<None, None>>}) \cup ({<<None, None>>} \X PageInputs)

\* the tenant of the identity a request is made with, None when it has none
ActingTenant(authorization) ==
    LET auth == get_current_user(authorization, db.users, now)
    IN IF IsNone(auth.user) THEN None ELSE Some(auth.user[1].tenant_id)

\* the requests explored: every authorization with every input; a request whose
\* token resolves to no identity is answered before its input is looked at, so
\* one input stands for all of them there
Serve(all, inputs, Handle(_, _)) ==
    LET identified == {a \in all : ~IsNone(ActingTenant(a))}
    IN \/ \E a \in identified, x \in inputs : Handle(a, x)
       \/ \E a \in all \ identified : Handle(a, CHOOSE y \in inputs : TRUE)

\* the ids a request names in its path: that of a row of the route's table,
\* whoever owns it, or Nowhere.  A handler looks the id up in that one table, so
\* Nowhere stands for every id that names no row of it: one never handed out,
\* one of a deleted row, one of a row of another table
PathIds(table) == DOMAIN table \cup {Nowhere}

Readers == Authorizations(db.users, now)
Writers == WriterAuthorizations(db.users, now)

\* the handler's result is committed and answered; a create consumes the uuid
\* and lets time pass
Commit(r, tenant) ==
    LET live == DOMAIN r.db.contacts \cup DOMAIN r.db.deals
                \cup DOMAIN r.db.properties \cup DOMAIN r.db.viewings
        created == r.resp.status = HTTP_201_CREATED
    IN /\ db' = r.db
       /\ resp' = r.resp
       /\ prev' = db
       /\ next_id' = IF created THEN next_id + 1 ELSE next_id
       /\ now' = IF created THEN now + 1 ELSE now
       /\ created_by' = [i \in live |-> IF i \in DOMAIN created_by THEN created_by[i]
                                        ELSE tenant[1]]
       /\ UNCHANGED <<inflight, second_run_vars, token_vars>>

CreateContact ==
    /\ resp = Idle
    /\ next_id <= MaxIds
    /\ Serve(Writers, ContactPayloads,
             LAMBDA a, x : Commit(create_contact(db, a, x, next_id, now), ActingTenant(a)))

ListContacts ==
    /\ resp = Idle
    /\ Serve(Readers, ContactListInputs,
             LAMBDA a, x : Commit(list_contacts(db, a, x[1], x[2][1], x[2][2], now), None))

GetContact ==
    /\ resp = Idle
    /\ Serve(Readers, PathIds(db.contacts),
             LAMBDA a, x : Commit(get_contact(db, a, x, now), None))

UpdateContact ==
    /\ resp = Idle
    /\ Serve(Writers, PathIds(db.contacts) \X ContactPatches,
             LAMBDA a, x : Commit(update_contact(db, a, x[1], x[2], now), None))

DeleteContact ==
    /\ resp = Idle
    /\ Serve(Writers, PathIds(db.contacts),
             LAMBDA a, x : Commit(delete_contact(db, a, x, now), None))

CreateDeal ==
    /\ resp = Idle
    /\ next_id <= MaxIds
    /\ Serve(Writers, DealPayloads,
             LAMBDA a, x : Commit(create_deal(db, a, x, next_id, now), ActingTenant(a)))

ListDeals ==
    /\ resp = Idle
    /\ Serve(Readers, DealListInputs,
             LAMBDA a, x : Commit(list_deals(db, a, x[1][1], x[1][2], x[2][1], x[2][2], now),
                                  None))

GetDeal ==
    /\ resp = Idle
    /\ Serve(Readers, PathIds(db.deals),
             LAMBDA a, x : Commit(get_deal(db, a, x, now), None))

UpdateDeal ==
    /\ resp = Idle
    /\ Serve(Writers, PathIds(db.deals) \X DealPatches,
             LAMBDA a, x : Commit(update_deal(db, a, x[1], x[2], now), None))

DeleteDeal ==
    /\ resp = Idle
    /\ Serve(Writers, PathIds(db.deals),
             LAMBDA a, x : Commit(delete_deal(db, a, x, now), None))

CreateProperty ==
    /\ resp = Idle
    /\ next_id <= MaxIds
    /\ Serve(Writers, PropertyPayloads,
             LAMBDA a, x : Commit(create_property(db, a, x, next_id, now), ActingTenant(a)))

ListProperties ==
    /\ resp = Idle
    /\ Serve(Readers, PageInputs,
             LAMBDA a, x : Commit(list_properties(db, a, x[1], x[2], now), None))

GetProperty ==
    /\ resp = Idle
    /\ Serve(Readers, PathIds(db.properties),
             LAMBDA a, x : Commit(get_property(db, a, x, now), None))

UpdateProperty ==
    /\ resp = Idle
    /\ Serve(Writers, PathIds(db.properties) \X PropertyPatches,
             LAMBDA a, x : Commit(update_property(db, a, x[1], x[2], now), None))

DeleteProperty ==
    /\ resp = Idle
    /\ Serve(Writers, PathIds(db.properties),
             LAMBDA a, x : Commit(delete_property(db, a, x, now), None))

CreateViewing ==
    /\ resp = Idle
    /\ next_id <= MaxIds
    /\ Serve(Writers, PathIds(db.properties) \X ViewingPayloads,
             LAMBDA a, x : Commit(create_viewing(db, a, x[1], x[2], next_id, now),
                                  ActingTenant(a)))

ListViewings ==
    /\ resp = Idle
    /\ Serve(Readers, PathIds(db.properties) \X {"ASC", "DESC"},
             LAMBDA a, x : Commit(list_viewings(db, a, x[1], x[2], now), None))

\* the response has been sent: the server takes the next request
Respond ==
    /\ resp # Idle
    /\ resp' = Idle
    /\ prev' = db
    /\ UNCHANGED <<inflight, db, next_id, now, created_by, second_run_vars, token_vars>>

Next ==
    \/ CreateContact \/ ListContacts \/ GetContact \/ UpdateContact \/ DeleteContact
    \/ CreateDeal \/ ListDeals \/ GetDeal \/ UpdateDeal \/ DeleteDeal
    \/ CreateProperty \/ ListProperties \/ GetProperty \/ UpdateProperty
    \/ DeleteProperty \/ CreateViewing \/ ListViewings
    \/ Respond

Spec == Init /\ [][Next]_vars

----------------------------------------------------------------------------
(* Two runs of the service side by side.  The runs share the clock and the  *)
(* uuid4 values and receive the same requests from the identities of tenant *)
(* T2.  The identities of tenant T1 create, update and delete in the first  *)
(* run and do nothing in the second.  Two runs that differ only in what T1  *)
(* does have the same second run, so what T2 is answered is the same in     *)
(* both as soon as it is, in each, what T2 is answered in the second run.   *)

T1 == "tenant_a"
T2 == "tenant_b"

\* the tokens the identities (the active users) of tenant T hold
TokensOf(T) ==
    {Some(tok) : tok \in IssuedTokens(db.users,
                                      {u \in DOMAIN db.users :
                                          db.users[u].tenant_id = T /\ db.users[u].is_active},
                                      now)}

WriteRoutes == {"create_contact", "update_contact", "delete_contact",
                "create_deal", "update_deal", "delete_deal",
                "create_property", "update_property", "delete_property",
                "create_viewing"}
ReadRoutes == {"list_contacts", "get_contact", "list_deals", "get_deal",
               "list_properties", "get_property", "list_viewings"}

\* the inputs explored for each route, those of the actions of Spec
Inputs(op) ==
    CASE op = "create_contact" -> ContactPayloads
      [] op = "list_contacts" -> ContactListInputs
      [] op = "update_contact" -> Ids \X ContactPatches
      [] op = "create_deal" -> DealPayloads
      [] op = "list_deals" -> DealListInputs
      [] op = "update_deal" -> Ids \X DealPatches
      [] op = "create_property" -> PropertyPayloads
      [] op = "list_properties" -> PageInputs
      [] op = "update_property" -> Ids \X PropertyPatches
      [] op = "create_viewing" -> Ids \X ViewingPayloads
      [] op = "list_viewings" -> Ids \X {"ASC", "DESC"}
      [] OTHER -> Ids

\* the routes of the API: a request on store d is handled by its route's handler
api_router(d, op, a, x, new_id, t) ==
    CASE op = "create_contact" -> create_contact(d, a, x, new_id, t)
      [] op = "list_contacts" -> list_contacts(d, a, x[1], x[2][1], x[2][2], t)
      [] op = "get_contact" -> get_contact(d, a, x, t)
      [] op = "update_contact" -> update_contact(d, a, x[1], x[2], t)
      [] op = "delete_contact" -> delete_contact(d, a, x, t)
      [] op = "create_deal" -> create_deal(d, a, x, new_id, t)
      [] op = "list_deals" -> list_deals(d, a, x[1][1], x[1][2], x[2][1], x[2][2], t)
      [] op = "get_deal" -> get_deal(d, a, x, t)
      [] op = "update_deal" -> update_deal(d, a, x[1], x[2], t)
      [] op = "delete_deal" -> delete_deal(d, a, x, t)
      [] op = "create_property" -> create_property(d, a, x, new_id, t)
      [] op = "list_properties" -> list_properties(d, a, x[1], x[2], t)
      [] op = "get_property" -> get_property(d, a, x, t)
      [] op = "update_property" -> update_property(d, a, x[1], x[2], t)
      [] op = "delete_property" -> delete_property(d, a, x, t)
      [] op = "create_viewing" -> create_viewing(d, a, x[1], x[2], new_id, t)
      [] op = "list_viewings" -> list_viewings(d, a, x[1], x[2], t)

IsCreate(op) ==
    op \in {"create_contact", "create_deal", "create_property", "create_viewing"}

\* the first run commits the result r1 of a request of T1; the second run is
\* not asked anything, but the uuid4 value and the time are used up
CommitFirst(r1) ==
    LET created == r1.resp.status = HTTP_201_CREATED
    IN /\ db' = r1.db
       /\ prev' = r1.db
       /\ next_id' = IF created THEN next_id + 1 ELSE next_id
       /\ now' = IF created THEN now + 1 ELSE now
       /\ UNCHANGED <<inflight, db2, resp, resp2, created_by, token_vars>>

\* the runs commit the results r1 and r2 of one request of T2; prev keeps the
\* first run's store as it was when the request arrived
CommitBoth(r1, r2) ==
    LET created == \/ r1.resp.status = HTTP_201_CREATED
                   \/ r2.resp.status = HTTP_201_CREATED
    IN /\ db' = r1.db
       /\ db2' = r2.db
       /\ resp' = r1.resp
       /\ resp2' = r2.resp
       /\ prev' = db
       /\ next_id' = IF created THEN next_id + 1 ELSE next_id
       /\ now' = IF created THEN now + 1 ELSE now
       /\ UNCHANGED <<inflight, created_by, token_vars>>

\* an identity of T1 creates, updates or deletes something in the first run
T1Operation ==
    /\ resp = Idle
    /\ \E op \in WriteRoutes, a \in TokensOf(T1) \cap Writers :
          /\ IsCreate(op) => next_id <= MaxIds
          /\ \E x \in Inputs(op) :
                CommitFirst(api_router(db, op, a, x, next_id, now))

\* an identity of T2 makes the same request in both runs
T2Request ==
    /\ resp = Idle
    /\ \E op \in WriteRoutes \cup ReadRoutes, a \in TokensOf(T2) :
          /\ IsCreate(op) => next_id <= MaxIds
          /\ \E x \in Inputs(op) :
                CommitBoth(api_router(db, op, a, x, next_id, now),
                           api_router(db2, op, a, x, next_id, now))

\* both responses have been sent
BothRespond ==
    /\ resp # Idle
    /\ resp' = Idle
    /\ resp2' = Idle
    /\ prev' = db
    /\ UNCHANGED <<inflight, db, db2, next_id, now, created_by, token_vars>>

NextTwoRuns == T1Operation \/ T2Request \/ BothRespond

\* as Init, with the second run's store as the first's
InitTwoRuns ==
    /\ db = InitDb
    /\ next_id = 1
    /\ now = 0
    /\ resp = Idle
    /\ prev = InitDb
    /\ created_by = <<>>
    /\ db2 = InitDb
    /\ inflight = <<>>
    /\ resp2 = Idle
    /\ issue = None
    /\ token = None
    /\ clock = 0
    /\ decoded = None

SpecTwoRuns == InitTwoRuns /\ [][NextTwoRuns]_vars

----------------------------------------------------------------------------
(* The token codec on its own: app/core/security.py *)

\* expires_delta values: absent, zero, short ones, the configured default and a
\* negative one
ExpiresDeltas == {None, Some(0), Some(1), Some(2), Some(ACCESS_TOKEN_EXPIRE_MINUTES), Some(-1)}

IssueInputs == [user_id : UserIds, tenant_id : Tenants, expires_delta : ExpiresDeltas]

InitToken ==
    /\ db = InitDb
    /\ next_id = 1
    /\ now = 0
    /\ resp = Idle
    /\ prev = InitDb
    /\ created_by = <<>>
    /\ db2 = EmptyTable
    /\ inflight = <<>>
    /\ resp2 = Idle
    /\ issue \in IssueInputs
    /\ token = None
    /\ clock \in {0, 1}
    /\ decoded = None

\* create_access_token is called at the current time
IssueToken ==
    /\ token = None
    /\ token' = Some([at |-> clock,
                      value |-> create_access_token(issue.user_id, issue.tenant_id,
                                                    issue.expires_delta, None, clock)])
    /\ UNCHANGED <<inflight, issue, clock, decoded, service_vars, second_run_vars>>

\* time passes
Tick ==
    /\ clock < MaxTime
    /\ clock' = clock + 1
    /\ UNCHANGED <<inflight, issue, token, decoded, service_vars, second_run_vars>>

\* decode_access_token is called on the token at the current time
DecodeToken ==
    /\ token # None
    /\ decoded' = Some([at |-> clock,
                        payload |-> decode_access_token(token[1].value, clock)])
    /\ UNCHANGED <<inflight, issue, token, clock, service_vars, second_run_vars>>

NextToken == IssueToken \/ Tick \/ DecodeToken

SpecToken == InitToken /\ [][NextToken]_vars

----------------------------------------------------------------------------
(* Login and identity resolution while the users table changes under them:  *)
(* app/api/v1/endpoints/auth.py, app/api/deps.py, app/models/tenant.py.     *)
(* No route writes the users table; users are provisioned, moved between    *)
(* tenants and switched on and off by an administrator, in the database.    *)
(* The model follows the first token a login issues.                        *)

\* the users table with the columns login reads: each user has an email and
\* the hash of the password of the test fixtures
LoginUsers ==
    [u \in UserIds |->
        Merge(InitUsers[u], [email |-> Emails[u],
                             hashed_password |-> hash_password("password123")])]

\* a users table in which a user of tenant_a has the email of a user of
\* tenant_b: uq_user_tenant_email makes an email unique within one tenant only
SharedEmailUsers == [LoginUsers EXCEPT ![2].email = Emails[3]]

\* UniqueConstraint("tenant_id", "email")
uq_user_tenant_email(users) ==
    \A u, v \in DOMAIN users :
        u # v => ~(users[u].tenant_id = users[v].tenant_id
                   /\ users[u].email = users[v].email)

LoginEmails == {Emails[u] : u \in UserIds} \cup {"nobody@nowhere.com"}
LoginPasswords == {"password123", "wrongpassword"}

InitAuth ==
    /\ db \in {[InitDb EXCEPT !.users = users] : users \in {LoginUsers, SharedEmailUsers}}
    /\ prev = db
    /\ next_id = 1
    /\ now = 0
    /\ resp = Idle
    /\ created_by = <<>>
    /\ db2 = EmptyTable
    /\ inflight = <<>>
    /\ resp2 = Idle
    /\ issue = None
    /\ token = None
    /\ clock = 0
    /\ decoded = None

\* a claim that is not the string of a uuid
Malformed == [text |-> "not-a-uuid"]

\* tokens signed with the server's key that no login issued: with a claim
\* missing or malformed, for a user that does not exist, and for a user that
\* starts active and one that starts inactive with either tenant
SignedTokens(t) ==
    LET claims == [sub |-> UuidStr(1), tenant_id |-> UuidStr("tenant_a"),
                   exp |-> t + ACCESS_TOKEN_EXPIRE_MINUTES, iat |-> t, type |-> "access"]
    IN {jwt_encode(Restrict(claims, DOMAIN claims \ {"sub"}), JWT_SECRET),
        jwt_encode(Restrict(claims, DOMAIN claims \ {"tenant_id"}), JWT_SECRET),
        jwt_encode([claims EXCEPT !.sub = Malformed], JWT_SECRET),
        jwt_encode([claims EXCEPT !.tenant_id = Malformed], JWT_SECRET),
        jwt_encode([claims EXCEPT !.sub = UuidStr(0)], JWT_SECRET)}
    \cup {create_access_token(u, tn, None, None, t) : u \in {1, 4}, tn \in Tenants}

\* what a client can send as its bearer token: nothing, a forged token, an
\* expired one, a signed one, or the token the login issued
Bearers ==
    {None, Some(ForgedToken),
     Some(create_access_token(1, "tenant_a", Some(-1), None, now))}
    \cup {Some(tok) : tok \in SignedTokens(now)}
    \cup (IF token = None THEN {} ELSE {Some(token[1].value)})

\* the user a token was issued for
SubjectOf(tok) == tok.claims.sub.uuid

\* the login route has answered; the first token issued is the one followed
CommitLogin(r) ==
    /\ db' = r.db
    /\ resp' = r.resp
    /\ prev' = db
    /\ token' = IF token = None /\ r.resp.status = HTTP_200_OK
                THEN Some([at |-> now, value |-> r.resp.body[1].access_token,
                           reassigned |-> FALSE])
                ELSE token
    /\ UNCHANGED <<inflight, next_id, now, created_by, second_run_vars, issue, clock, decoded>>

Login ==
    /\ resp = Idle
    /\ \E username \in LoginEmails, password \in LoginPasswords :
          CommitLogin(login(db, username, password, now))

LoginJson ==
    /\ resp = Idle
    /\ \E email \in LoginEmails, password \in LoginPasswords :
          CommitLogin(login_json(db, email, password, now))
\* Resolve with a get_current_user that stamps the user it resolved with the
\* time of the request; used to test that ResolutionReadOnly depends on the
\* resolution writing nothing
Resolve_stamping_user ==
    /\ resp = Idle
    /\ \E authorization \in Bearers :
          LET auth == get_current_user(authorization, db.users, now)
          IN /\ resp' = [op |-> "get_current_user", authorization |-> authorization,
                         status |-> auth.status, detail |-> auth.detail, user |-> auth.user]
             /\ prev' = db
             /\ db' = IF auth.user = None THEN db
                      ELSE [db EXCEPT !.users[auth.user[1].id] =
                                         Merge(@, [last_seen |-> now])]
             /\ UNCHANGED <<inflight, next_id, now, created_by, second_run_vars, token_vars>>

\* a request arrives with a bearer token and its identity is resolved
Resolve ==
    /\ resp = Idle
    /\ \E authorization \in Bearers :
          LET auth == get_current_user(authorization, db.users, now)
          IN /\ resp' = [op |-> "get_current_user", authorization |-> authorization,
                         status |-> auth.status, detail |-> auth.detail, user |-> auth.user]
             /\ prev' = db
             /\ UNCHANGED <<inflight, db, next_id, now, created_by, second_run_vars, token_vars>>

\* the users the administrator moves and switches: one of each tenant
Administered == {1, 3}

\* an administrator moves a user to another tenant; the followed token records
\* that its user was moved after it was issued
ReassignTenant ==
    /\ resp = Idle
    /\ \E u \in Administered, tenant \in Tenants :
          LET users == [db.users EXCEPT ![u].tenant_id = tenant]
          IN /\ db.users[u].tenant_id # tenant
             /\ uq_user_tenant_email(users)
             /\ db' = [db EXCEPT !.users = users]
             /\ prev' = [db EXCEPT !.users = users]
             /\ token' = IF token # None /\ SubjectOf(token[1].value) = u
                         THEN Some([token[1] EXCEPT !.reassigned = TRUE])
                         ELSE token
             /\ UNCHANGED <<inflight, resp, next_id, now, created_by, second_run_vars,
                            issue, clock, decoded>>

\* an administrator switches a user off or on
SetActive ==
    /\ resp = Idle
    /\ \E u \in Administered :
          LET users == [db.users EXCEPT ![u].is_active = ~@]
          IN /\ db' = [db EXCEPT !.users = users]
             /\ prev' = [db EXCEPT !.users = users]
             /\ UNCHANGED <<inflight, resp, next_id, now, created_by, second_run_vars, token_vars>>

\* an administrator switches a tenant off or on
SetTenantActive ==
    /\ resp = Idle
    /\ \E T \in Tenants :
          LET tenants == [db.tenants EXCEPT ![T].is_active = ~@]
          IN /\ db' = [db EXCEPT !.tenants = tenants]
             /\ prev' = [db EXCEPT !.tenants = tenants]
             /\ UNCHANGED <<inflight, resp, next_id, now, created_by, second_run_vars, token_vars>>

\* time passes over the followed token
TickAuth ==
    /\ resp = Idle
    /\ token # None
    /\ now < MaxTime
    /\ now' = now + 1
    /\ UNCHANGED <<inflight, db, prev, resp, next_id, created_by, second_run_vars, token_vars>>

\* the answer has been sent
RespondAuth ==
    /\ resp # Idle
    /\ resp' = Idle
    /\ prev' = db
    /\ UNCHANGED <<inflight, db, next_id, now, created_by, second_run_vars, token_vars>>

NextAuth ==
    Login \/ LoginJson \/ Resolve \/ ReassignTenant \/ SetActive \/ SetTenantActive
    \/ TickAuth \/ RespondAuth

SpecAuth == InitAuth /\ [][NextAuth]_vars

----------------------------------------------------------------------------
(* The lists over a store with several rows of a kind.  The store starts    *)
(* as the service leaves it after tenant_a has created a property and a     *)
(* contact; both tenants then create contacts, deals, properties and        *)
(* viewings and list them.                                                  *)

\* the ids uuid4() hands out here
MaxListIds == MaxIds + 2

Ann == <<"A", "n", "n">>

\* the store after create_property and create_contact by user 1 at times 0, 1
SeededStore ==
    LET d1 == create_property(InitDb, Some(create_access_token(1, "tenant_a", None, None, 0)),
                              [title |-> "Flat"], 1, 0).db
    IN create_contact(d1, Some(create_access_token(1, "tenant_a", None, None, 1)),
                      [first_name |-> Ann], 2, 1).db

InitLists ==
    /\ db = SeededStore
    /\ next_id = 3
    /\ now = 2
    /\ resp = Idle
    /\ prev = SeededStore
    /\ created_by = [i \in {1, 2} |-> "tenant_a"]
    /\ db2 = EmptyTable
    /\ inflight = <<>>
    /\ resp2 = Idle
    /\ issue = None
    /\ token = None
    /\ clock = 0
    /\ decoded = None

\* one identity of each tenant
ListIdentities == {Some(tok) : tok \in IssuedTokens(db.users, {1, 3}, now)}

ListDealPayloads == {[contact_id |-> 2], [contact_id |-> 2, stage |-> "NEGOTIATION"]}
ListDealFilters == {<<None, None>>, <<Some("NEW"), None>>, <<None, Some(2)>>}
ListViewingPayloads ==
    {[property_id |-> 1, contact_id |-> 2, viewing_date |-> d] : d \in Dates}

PopulateContact ==
    /\ resp = Idle
    /\ next_id <= MaxListIds
    /\ \E a \in ListIdentities, n \in Names :
          Commit(create_contact(db, a, [first_name |-> n], next_id, now), ActingTenant(a))

PopulateDeal ==
    /\ resp = Idle
    /\ next_id <= MaxListIds
    /\ \E a \in ListIdentities, x \in ListDealPayloads :
          Commit(create_deal(db, a, x, next_id, now), ActingTenant(a))

PopulateProperty ==
    /\ resp = Idle
    /\ next_id <= MaxListIds
    /\ \E a \in ListIdentities :
          Commit(create_property(db, a, [title |-> "Flat"], next_id, now), ActingTenant(a))

PopulateViewing ==
    /\ resp = Idle
    /\ next_id <= MaxListIds
    /\ \E a \in ListIdentities, id \in DOMAIN db.properties, x \in ListViewingPayloads :
          Commit(create_viewing(db, a, id, x, next_id, now), ActingTenant(a))

PageContacts ==
    /\ resp = Idle
    /\ \E a \in ListIdentities, search \in SearchInputs, page \in PageInputs :
          Commit(list_contacts(db, a, search, page[1], page[2], now), None)

PageDeals ==
    /\ resp = Idle
    /\ \E a \in ListIdentities, f \in ListDealFilters, page \in PageInputs :
          Commit(list_deals(db, a, f[1], f[2], page[1], page[2], now), None)

PageProperties ==
    /\ resp = Idle
    /\ \E a \in ListIdentities, page \in PageInputs :
          Commit(list_properties(db, a, page[1], page[2], now), None)

PageViewings ==
    /\ resp = Idle
    /\ \E a \in ListIdentities, id \in DOMAIN db.properties, ties \in {"ASC", "DESC"} :
          Commit(list_viewings(db, a, id, ties, now), None)

NextLists ==
    \/ PopulateContact \/ PopulateDeal \/ PopulateProperty \/ PopulateViewing
    \/ PageContacts \/ PageDeals \/ PageProperties \/ PageViewings
    \/ Respond

SpecLists == InitLists /\ [][NextLists]_vars

----------------------------------------------------------------------------
(* Requests served concurrently: each request has its own AsyncSession and   *)
(* gives the event loop (or another worker) the turn at every await.  The    *)
(* handlers of app/api/v1/endpoints/contacts.py, deals.py and properties.py  *)
(* are split at their awaits: the select that fetches the row, the select    *)
(* that checks a referenced contact, the setattr loop, db.delete, db.commit  *)
(* and db.refresh.  db is the committed state of the PostgreSQL database of  *)
(* DATABASE_URL, which enforces the foreign keys of the models.              *)

RaceSlots == {1, 2}
NotStarted == [pc |-> "idle"]

\* the store the concurrent requests start from: tenant_a owns contacts 1 and
\* 2, deal 3 of contact 1 and property 4
RaceStore ==
    LET tok(t) == Some(create_access_token(1, "tenant_a", None, None, t))
        d1 == create_contact(InitDb, tok(0), [first_name |-> Ann], 1, 0).db
        d2 == create_contact(d1, tok(1), [first_name |-> Bob], 2, 1).db
        d3 == create_deal(d2, tok(2), [contact_id |-> 1], 3, 2).db
    IN create_property(d3, tok(3), [title |-> "Flat"], 4, 3).db

InitRace ==
    /\ db = RaceStore
    /\ prev = RaceStore
    /\ next_id = 5
    /\ now = 4
    /\ resp = Idle
    /\ created_by = [i \in 1..4 |-> "tenant_a"]
    /\ db2 = EmptyTable
    /\ resp2 = Idle
    /\ issue = None
    /\ token = None
    /\ clock = 0
    /\ decoded = None
    /\ inflight = [r \in RaceSlots |-> NotStarted]

\* the requests that race: updates of the same contact, property and deal,
\* creations of a deal for a contact and deletions of a contact
RaceOps == {"update_contact", "update_property", "update_deal", "create_deal",
            "delete_contact"}

RaceCalls(op) ==
    CASE op = "update_contact" ->
            {[op |-> op, id |-> 1, payload |-> [first_name |-> Some(n)]] : n \in Names}
      [] op = "update_property" ->
            {[op |-> op, id |-> 4, payload |-> [title |-> Some(x)]] : x \in {"Flat", "House"}}
      [] op = "update_deal" ->
            {[op |-> op, id |-> 3, payload |-> p] :
                p \in {[contact_id |-> Some(2)], [stage |-> Some("NEGOTIATION")],
                       [contact_id |-> Some(1), stage |-> Some("NEW")]}}
      [] op = "create_deal" ->
            {[op |-> op, id |-> NoId, payload |-> [contact_id |-> c]] : c \in {1, 2}}
      [] op = "delete_contact" ->
            {[op |-> op, id |-> c, payload |-> <<>>] : c \in {1, 2}}

\* the requests are made by the two users of tenant_a
RaceIdentities == {Some(tok) : tok \in IssuedTokens(db.users, {1, 2}, now)}

\* the table an update route selects from, and the fields of its update schema
RaceTable(d, op) ==
    CASE op \in {"update_contact", "delete_contact"} -> d.contacts
      [] op = "update_deal" -> d.deals
      [] op = "update_property" -> d.properties

update_data_of(s) ==
    CASE s.op = "update_contact" -> ContactUpdate(s.payload)
      [] s.op = "update_deal" -> DealUpdate(s.payload)
      [] s.op = "update_property" -> PropertyUpdate(s.payload)

\* the request has been answered
Answered(s, status, detail, body) ==
    Merge(s, [pc |-> "done",
              resp |-> Response(s.op, Some(s.tenant_id), s.id, status, detail, body)])

\* select(...).where(id == ..., tenant_id == current_user.tenant_id)
SelectOwn(table, id, tenant_id) ==
    IF id \in DOMAIN table /\ table[id].tenant_id = tenant_id THEN Some(table[id]) ELSE None

\* a request arrives: a session is opened for it
StartRequest ==
    \E r \in RaceSlots, op \in RaceOps, a \in RaceIdentities :
        \E c \in RaceCalls(op) :
            /\ inflight[r] = NotStarted
            /\ inflight' = [inflight EXCEPT ![r] =
                                Merge(c, [a |-> a, pc |-> "fetch", seq |-> 0])]
            /\ UNCHANGED <<service_vars, second_run_vars, token_vars>>

\* get_current_user and the handler's first select: the row to update or
\* delete, or, in create_deal, the contact the deal is for.  The session keeps
\* the values it loaded.
FetchStep(d, s, t) ==
    LET auth == get_current_user(s.a, d.users, t) IN
    IF auth.status # HTTP_200_OK
    THEN Merge(s, [pc |-> "done", resp |-> Rejected(d, s.op, s.id, auth).resp])
    ELSE
    LET s1 == Merge(s, [tenant_id |-> auth.user[1].tenant_id]) IN
    IF s.op = "create_deal"
    THEN IF IsNone(SelectOwn(d.contacts, DealCreate(s.payload).contact_id, s1.tenant_id))
         THEN Answered(s1, HTTP_404_NOT_FOUND,
                       "Contact not found or does not belong to your tenant", <<>>)
         ELSE Merge(s1, [pc |-> "commit",
                         obj |-> Merge(DealCreate(s.payload), [tenant_id |-> s1.tenant_id])])
    ELSE
    LET row == SelectOwn(RaceTable(d, s.op), s.id, s1.tenant_id) IN
    IF IsNone(row)
    THEN Answered(s1, HTTP_404_NOT_FOUND,
                  CASE s.op \in {"update_contact", "delete_contact"} -> "Contact not found"
                    [] s.op = "update_deal" -> "Deal not found"
                    [] s.op = "update_property" -> "Property not found",
                  <<>>)
    ELSE Merge(s1, [loaded |-> row[1], obj |-> row[1],
                    pc |-> IF s.op = "delete_contact" THEN "delete"
                           ELSE IF /\ s.op = "update_deal"
                                   /\ "contact_id" \in DOMAIN update_data_of(s)
                                   /\ ~IsNone(update_data_of(s).contact_id)
                           THEN "check" ELSE "mutate"])

Fetch ==
    \E r \in RaceSlots :
        /\ inflight[r].pc = "fetch"
        /\ inflight' = [inflight EXCEPT ![r] = FetchStep(db, @, now)]
        /\ UNCHANGED <<service_vars, second_run_vars, token_vars>>

\* update_deal: the select of the contact the payload names
CheckContact ==
    \E r \in RaceSlots :
        LET s == inflight[r] IN
        /\ s.pc = "check"
        /\ inflight' = [inflight EXCEPT ![r] =
              IF IsNone(SelectOwn(db.contacts, update_data_of(s).contact_id[1], s.tenant_id))
              THEN Answered(s, HTTP_404_NOT_FOUND,
                            "Contact not found or does not belong to your tenant", <<>>)
              ELSE Merge(s, [pc |-> "mutate"])]
        /\ UNCHANGED <<service_vars, second_run_vars, token_vars>>

\* the setattr loop: it changes the session's object, not the database
Mutate ==
    \E r \in RaceSlots :
        LET s == inflight[r] IN
        /\ s.pc = "mutate"
        /\ inflight' = [inflight EXCEPT ![r] =
              Merge(s, [pc |-> "commit", obj |-> SetAttrs(s.obj, update_data_of(s))])]
        /\ UNCHANGED <<service_vars, second_run_vars, token_vars>>

\* await db.delete(contact): the session loads contact.deals to cascade to them
MarkDeleted ==
    \E r \in RaceSlots :
        LET s == inflight[r] IN
        /\ s.pc = "delete"
        /\ inflight' = [inflight EXCEPT ![r] =
              Merge(s, [pc |-> "commit",
                        cascade |-> {e \in DOMAIN db.deals : db.deals[e].contact_id = s.id}])]
        /\ UNCHANGED <<service_vars, second_run_vars, token_vars>>

\* PostgreSQL lets neither an INSERT nor an UPDATE commit a contact_id that
\* names no contact (ForeignKey("contacts.id"))
ForeignKeyHolds_unenforced(contacts, contact_id) == TRUE

ForeignKeyHolds(contacts, contact_id) == contact_id \in DOMAIN contacts

\* an exception raised by the commit or the refresh, which no route handles
Failed(s) == Merge(s, [pc |-> "done", resp |-> IntegrityError(<<>>, s.op, s, s.id).resp])

\* db.commit(): the session flushes and the transaction commits.
\* - update: the UPDATE sets the columns whose value differs from the value
\*   the session loaded, and no others (none: no UPDATE at all); a row the
\*   UPDATE no longer finds is a StaleDataError;
\* - create_deal: the INSERT;
\* - delete_contact: the DELETE of the deals the session loaded and of the
\*   contact; ON DELETE CASCADE removes every other deal and viewing of it.
CommitStep(d, s, new_id, t) ==
    LET committed == Merge(s, [pc |-> "refresh", seq |-> t + 1]) IN
    IF s.op = "create_deal"
    THEN IF ~ForeignKeyHolds(d.contacts, s.obj.contact_id)
         THEN [db |-> d, s |-> Failed(s)]
         ELSE LET deal == Merge(s.obj, [id |-> new_id, created_at |-> t])
              IN [db |-> [d EXCEPT !.deals = Insert(@, deal)],
                  s |-> Merge(committed, [id |-> new_id, obj |-> deal])]
    ELSE IF s.op = "delete_contact"
    THEN [db |-> [d EXCEPT
                    !.contacts = Remove(@, {s.id}),
                    !.deals = Remove(@, (s.cascade \cap DOMAIN @)
                                        \cup {e \in DOMAIN @ : @[e].contact_id = s.id}),
                    !.viewings = Remove(@, {v \in DOMAIN @ : @[v].contact_id = s.id})],
          s |-> Answered(committed, HTTP_204_NO_CONTENT, "", <<>>)]
    ELSE
    LET changed == {k \in DOMAIN s.obj : s.obj[k] # s.loaded[k]}
        table == RaceTable(d, s.op)
    IN IF changed = {} THEN [db |-> d, s |-> committed]
       ELSE IF s.id \notin DOMAIN table THEN [db |-> d, s |-> Failed(s)]
       ELSE IF /\ s.op = "update_deal"
               /\ "contact_id" \in changed
               /\ ~ForeignKeyHolds(d.contacts, s.obj.contact_id)
       THEN [db |-> d, s |-> Failed(s)]
       ELSE LET row == [k \in DOMAIN table[s.id] |->
                           IF k \in changed THEN s.obj[k] ELSE table[s.id][k]]
            IN [db |-> CASE s.op = "update_contact" -> [d EXCEPT !.contacts[s.id] = row]
                         [] s.op = "update_deal" -> [d EXCEPT !.deals[s.id] = row]
                         [] s.op = "update_property" -> [d EXCEPT !.properties[s.id] = row],
                s |-> committed]

CommitTx ==
    \E r \in RaceSlots :
        LET c == CommitStep(db, inflight[r], next_id, now) IN
        /\ inflight[r].pc = "commit"
        /\ db' = c.db
        /\ prev' = db
        /\ inflight' = [inflight EXCEPT ![r] = c.s]
        /\ now' = now + 1
        /\ next_id' = IF c.db.deals # db.deals /\ inflight[r].op = "create_deal"
                      THEN next_id + 1 ELSE next_id
        /\ UNCHANGED <<resp, created_by, second_run_vars, token_vars>>

\* db.refresh(obj): the row is selected again by its primary key and returned;
\* a row that is gone is an InvalidRequestError
Refresh ==
    \E r \in RaceSlots :
        LET s == inflight[r]
            table == IF s.op = "create_deal" THEN db.deals ELSE RaceTable(db, s.op)
        IN /\ s.pc = "refresh"
           /\ inflight' = [inflight EXCEPT ![r] =
                 IF s.id \notin DOMAIN table THEN Failed(s)
                 ELSE Answered(s, IF s.op = "create_deal" THEN HTTP_201_CREATED
                                  ELSE HTTP_200_OK, "", <<table[s.id]>>)]
           /\ UNCHANGED <<service_vars, second_run_vars, token_vars>>

NextRace == StartRequest \/ Fetch \/ CheckContact \/ Mutate \/ MarkDeleted \/ CommitTx \/ Refresh

SpecRace == InitRace /\ [][NextRace]_vars

----------------------------------------------------------------------------
(* Properties of the service *)

GetOps == {"get_contact", "get_deal", "get_property"}
UpdateOps == {"update_contact", "update_deal", "update_property"}
DeleteOps == {"delete_contact", "delete_deal", "delete_property"}
ListOps == {"list_contacts", "list_deals", "list_properties", "list_viewings"}
CreateOps == {"create_contact", "create_deal", "create_property", "create_viewing"}

\* the table a get, update or delete route looks its id up in
TableOf(d, op) ==
    IF op \in {"get_contact", "update_contact", "delete_contact"} THEN d.contacts
    ELSE IF op \in {"get_deal", "update_deal", "delete_deal"} THEN d.deals
    ELSE d.properties

\* what the route answers, to the identity of authorization a, for Nowhere
NowhereAnswers(op, a) ==
    CASE op = "get_contact" -> {get_contact(prev, a, Nowhere, now).resp}
      [] op = "get_deal" -> {get_deal(prev, a, Nowhere, now).resp}
      [] op = "get_property" -> {get_property(prev, a, Nowhere, now).resp}
      [] op = "update_contact" ->
            {update_contact(prev, a, Nowhere, p, now).resp : p \in ContactPatches}
      [] op = "update_deal" ->
            {update_deal(prev, a, Nowhere, p, now).resp : p \in DealPatches}
      [] op = "update_property" ->
            {update_property(prev, a, Nowhere, p, now).resp : p \in PropertyPatches}
      [] op = "delete_contact" -> {delete_contact(prev, a, Nowhere, now).resp}
      [] op = "delete_deal" -> {delete_deal(prev, a, Nowhere, now).resp}
      [] op = "delete_property" -> {delete_property(prev, a, Nowhere, now).resp}

SameAnswer(r1, r2) ==
    r1.status = r2.status /\ r1.detail = r2.detail /\ r1.body = r2.body

\* the request just answered was a get, update or delete by an identity of
\* tenant T of a row that another tenant owned when the request arrived
CrossTenantRequest(T) ==
    /\ resp.op \in GetOps \cup UpdateOps \cup DeleteOps
    /\ resp.tenant = Some(T)
    /\ resp.id \in DOMAIN TableOf(prev, resp.op)
    /\ TableOf(prev, resp.op)[resp.id].tenant_id # T

\* C1: a get, update (with any patch) or delete of a contact, deal or property
\* owned by another tenant is answered 404, changes nothing in the store, and
\* the answer has the status, detail and body the same route gives the same
\* identity for an id that exists nowhere.
CrossTenantIsNotFound ==
    \A T \in Tenants :
        CrossTenantRequest(T) =>
            /\ resp.status = HTTP_404_NOT_FOUND
            /\ db = prev
            /\ \A a \in Readers :
                  ActingTenant(a) = Some(T) =>
                      \A r \in NowhereAnswers(resp.op, a) : SameAnswer(resp, r)

\* tenant_b has just been refused the update of a deal of tenant_a
CrossTenantUpdateRefused ==
    /\ CrossTenantRequest("tenant_b")
    /\ resp.op = "update_deal"
    /\ resp.status = HTTP_404_NOT_FOUND

AllRows(d) ==
    Rows(d.contacts) \cup Rows(d.deals) \cup Rows(d.properties) \cup Rows(d.viewings)

\* the request just answered was made by an identity of a tenant that owned
\* nothing when it arrived, while other tenants did
OnlyOthersOwn ==
    /\ resp.tenant # None
    /\ AllRows(prev) # {}
    /\ \A r \in AllRows(prev) : r.tenant_id # resp.tenant[1]

\* every entity in the body of a successful list belongs to the caller's tenant
ListedRowsAreOwn ==
    (resp.op \in ListOps /\ resp.status = HTTP_200_OK) =>
        \A i \in 1..Len(resp.body) : resp.body[i].tenant_id = resp.tenant[1]

\* a well-formed list_contacts, list_deals or list_properties request of a
\* tenant that owns nothing is answered 200 with the empty list
EmptyListWhenOnlyOthersOwn ==
    (/\ resp.op \in ListOps \ {"list_viewings"}
     /\ OnlyOthersOwn
     /\ resp.status # HTTP_422_UNPROCESSABLE)
    => (resp.status = HTTP_200_OK /\ resp.body = <<>>)

\* C2 (amended): every entity returned by list_contacts, list_deals,
\* list_properties or list_viewings belongs to the caller's tenant, whatever
\* the filters and the pagination; when only other tenants own entities, the
\* first three answer a well-formed request 200 with the empty list, and
\* list_viewings answers 404 "Property not found" for every property id.
ListsAreTenantScoped ==
    /\ ListedRowsAreOwn
    /\ EmptyListWhenOnlyOthersOwn
    /\ (resp.op = "list_viewings" /\ OnlyOthersOwn) =>
           /\ resp.status = HTTP_404_NOT_FOUND
           /\ resp.detail = "Property not found"
           /\ resp.body = <<>>

\* C2 as stated: when only other tenants own entities, every list route,
\* list_viewings included, answers a well-formed request 200 with the empty list
ListsAreEmptyNotAnError ==
    /\ ListedRowsAreOwn
    /\ (/\ resp.op \in ListOps
        /\ OnlyOthersOwn
        /\ resp.status # HTTP_422_UNPROCESSABLE)
       => (resp.status = HTTP_200_OK /\ resp.body = <<>>)

\* a list of contacts was answered with the caller's contacts while the store
\* also held a contact of the other tenant
ListedAmongOthers ==
    /\ resp.op = "list_contacts"
    /\ resp.status = HTTP_200_OK
    /\ resp.body # <<>>
    /\ \E c \in Rows(db.contacts) : c.tenant_id # resp.tenant[1]

\* the request just answered was a get by an identity of tenant T of a row that
\* an identity of T created and nobody deleted
OwnRowRequested(T) ==
    /\ resp.op \in GetOps
    /\ resp.tenant = Some(T)
    /\ resp.id \in DOMAIN TableOf(prev, resp.op)
    /\ created_by[resp.id] = T

\* the place of row e among the rows of its tenant, newest first, and whether
\* that place is inside the window of a page <<skip, limit>>
Position(table, e) ==
    Cardinality({r \in Rows(table) :
                    r.tenant_id = e.tenant_id /\ r.created_at > e.created_at}) + 1
InWindow(table, e, page) ==
    /\ Query(SkipDefault, page[1]) < Position(table, e)
    /\ Position(table, e) <= Query(SkipDefault, page[1]) + Query(LimitDefault, page[2])
InBody(body, e) == \E i \in 1..Len(body) : body[i] = e
ValidPages == {page \in PageInputs : PaginationValid(page[1], page[2])}

\* tenant T owns exactly one property and nothing else
OwnsOneProperty(d, T) ==
    /\ Cardinality({p \in Rows(d.properties) : p.tenant_id = T}) = 1
    /\ Cardinality({r \in AllRows(d) : r.tenant_id = T}) = 1

\* what every identity of a tenant is answered when it lists, unfiltered, in a
\* store where the server awaits a request
OwnRowsListed ==
    resp = Idle =>
        \A a \in Readers : ~IsNone(ActingTenant(a)) =>
            LET T == ActingTenant(a)[1] IN
            /\ \A page \in ValidPages :
                  /\ \A e \in Rows(db.contacts) :
                        (created_by[e.id] = T /\ InWindow(db.contacts, e, page)) =>
                            InBody(list_contacts(db, a, None, page[1], page[2], now).resp.body, e)
                  /\ \A e \in Rows(db.deals) :
                        (created_by[e.id] = T /\ InWindow(db.deals, e, page)) =>
                            InBody(list_deals(db, a, None, None, page[1], page[2], now).resp.body, e)
                  /\ \A e \in Rows(db.properties) :
                        (created_by[e.id] = T /\ InWindow(db.properties, e, page)) =>
                            InBody(list_properties(db, a, page[1], page[2], now).resp.body, e)
            /\ \A e \in Rows(db.viewings), ties \in {"ASC", "DESC"} :
                  created_by[e.id] = T =>
                      InBody(list_viewings(db, a, e.property_id, ties, now).resp.body, e)
            /\ OwnsOneProperty(db, T) =>
                  LET r == list_properties(db, a, None, None, now).resp
                  IN r.status = HTTP_200_OK
                     /\ r.body = <<CHOOSE p \in Rows(db.properties) : p.tenant_id = T>>

\* C3: a row created by an identity of tenant T and not deleted since is
\* returned, with its id, by get for every identity of T; it is in the body of
\* the unfiltered list of every identity of T whenever its place (newest first)
\* is inside the page asked for; and a tenant that owns one property and
\* nothing else is answered exactly that property by list_properties.
OwnTenantVisible ==
    /\ \A T \in Tenants :
          OwnRowRequested(T) =>
              /\ resp.status = HTTP_200_OK
              /\ resp.body = <<TableOf(prev, resp.op)[resp.id]>>
              /\ resp.body[1].id = resp.id
    /\ OwnRowsListed

\* tenant_a, owning one property and nothing else while tenant_b owns a property
\* too, has just listed its properties and got its own one
OnePropertyListed ==
    /\ resp.op = "list_properties"
    /\ resp.tenant = Some("tenant_a")
    /\ OwnsOneProperty(prev, "tenant_a")
    /\ \E p \in Rows(prev.properties) : p.tenant_id = "tenant_b"
    /\ resp.status = HTTP_200_OK
    /\ Len(resp.body) = 1
    /\ created_by[resp.body[1].id] = "tenant_a"

\* the table a create route inserts into
CreateTableOf(d, op) ==
    CASE op = "create_contact" -> d.contacts
      [] op = "create_deal" -> d.deals
      [] op = "create_property" -> d.properties
      [] op = "create_viewing" -> d.viewings

\* C4: every successful create of a contact, deal, property or viewing stores
\* one new row whose tenant_id is the tenant of the identity that made the
\* request, whatever tenant_id or other content the payload has.
CreateStampsTenant ==
    (resp.op \in CreateOps /\ resp.status = HTTP_201_CREATED) =>
        LET row == resp.body[1] IN
        /\ resp.tenant # None
        /\ row.tenant_id = resp.tenant[1]
        /\ row.id \notin DOMAIN CreateTableOf(prev, resp.op)
        /\ CreateTableOf(db, resp.op) = Insert(CreateTableOf(prev, resp.op), row)

\* tenant_b has just created a viewing with a payload that asked for tenant_a
ForeignTenantInPayload ==
    /\ resp.op = "create_viewing"
    /\ resp.status = HTTP_201_CREATED
    /\ resp.tenant = Some("tenant_b")
    /\ \E a \in Writers, payload \in ViewingPayloads :
          /\ "tenant_id" \in DOMAIN payload
          /\ payload.tenant_id = "tenant_a"
          /\ create_viewing(prev, a, resp.id, payload, next_id - 1, now - 1).resp = resp

\* whether contact_id names a contact that tenant T owns in store d
OwnsContact(d, T, contact_id) ==
    contact_id \in DOMAIN d.contacts /\ d.contacts[contact_id].tenant_id = T

\* C5: create_deal by an identity of tenant T answers 201 with a new deal that
\* carries the given contact_id and stage exactly when contact_id names a
\* contact T owns at that moment; otherwise (a contact of another tenant, or no
\* contact) it answers 404 and the store is unchanged: no deal row is created.
DealCreationScoped ==
    /\ (resp = Idle /\ next_id <= MaxIds) =>
          \A a \in Writers, payload \in DealPayloads : ~IsNone(ActingTenant(a)) =>
              LET T == ActingTenant(a)[1]
                  r == create_deal(db, a, payload, next_id, now)
              IN IF OwnsContact(db, T, payload.contact_id)
                 THEN /\ r.resp.status = HTTP_201_CREATED
                      /\ r.resp.body[1].contact_id = payload.contact_id
                      /\ r.resp.body[1].stage = IF "stage" \in DOMAIN payload
                                                THEN payload.stage ELSE "NEW"
                      /\ r.db.deals = Insert(db.deals, r.resp.body[1])
                      /\ next_id \notin DOMAIN db.deals
                 ELSE /\ r.resp.status = HTTP_404_NOT_FOUND
                      /\ r.db = db
    /\ resp.op = "create_deal" =>
          IF resp.status = HTTP_201_CREATED
          THEN OwnsContact(prev, resp.tenant[1], resp.body[1].contact_id)
          ELSE db = prev

\* tenant_b has just been refused a deal on a contact of tenant_a
ForeignContactRefused ==
    /\ resp.op = "create_deal"
    /\ resp.status = HTTP_404_NOT_FOUND
    /\ resp.tenant = Some("tenant_b")
    /\ \E a \in Writers, payload \in DealPayloads :
          /\ OwnsContact(prev, "tenant_a", payload.contact_id)
          /\ create_deal(prev, a, payload, next_id, now).resp = resp

\* C7: in every reachable state each contact, deal, property and viewing has
\* the tenant_id of the identity that created it: no update, whatever its
\* payload and whoever sends it, changes the tenant_id of a row.
TenantIdImmutable ==
    \A r \in AllRows(db) : r.id \in DOMAIN created_by /\ r.tenant_id = created_by[r.id]

\* tenant_a has just renamed one of its contacts with a patch that also asked
\* for the contact to be moved to tenant_b
UpdateAskedForOtherTenant ==
    /\ resp.op = "update_contact"
    /\ resp.status = HTTP_200_OK
    /\ resp.tenant = Some("tenant_a")
    /\ resp.body[1].first_name # prev.contacts[resp.id].first_name
    /\ \E a \in Writers, payload \in ContactPatches :
          /\ "tenant_id" \in DOMAIN payload
          /\ payload.tenant_id = Some("tenant_b")
          /\ update_contact(prev, a, resp.id, payload, now).resp = resp

\* C8: in every reachable state every deal references a contact of the deal's
\* own tenant, and every viewing references a property and a contact of the
\* viewing's own tenant.
SameTenantReferences ==
    /\ \A d \in Rows(db.deals) : OwnsContact(db, d.tenant_id, d.contact_id)
    /\ \A v \in Rows(db.viewings) :
          /\ v.property_id \in DOMAIN db.properties
          /\ db.properties[v.property_id].tenant_id = v.tenant_id
          /\ OwnsContact(db, v.tenant_id, v.contact_id)

\* a deal has just been moved from one contact of its tenant to another
DealRepointed ==
    /\ resp.op = "update_deal"
    /\ resp.status = HTTP_200_OK
    /\ resp.body[1].contact_id # prev.deals[resp.id].contact_id

RequestedTtl == IF IsNone(issue.expires_delta) THEN ACCESS_TOKEN_EXPIRE_MINUTES
                ELSE issue.expires_delta[1]

\* the decoded claims are those of the user and tenant the token was issued for
ClaimsMatch(payload) ==
    /\ payload # None
    /\ payload[1].sub = UuidStr(issue.user_id)
    /\ payload[1].tenant_id = UuidStr(issue.tenant_id)

\* C10 as stated: for every user_id, tenant_id and ttl the token decodes to
\* claims with that subject and tenant at every time strictly before issue
\* time + ttl, and to None at every time equal to or later than issue time + ttl.
TokenRoundTrip ==
    (token # None /\ decoded # None) =>
        IF decoded[1].at < token[1].at + RequestedTtl
        THEN ClaimsMatch(decoded[1].payload)
        ELSE decoded[1].payload = None

\* the lifetime create_access_token gives the token: a zero expires_delta is
\* taken for an absent one
EffectiveTtl == IF IsNone(issue.expires_delta) \/ issue.expires_delta[1] = 0
                THEN ACCESS_TOKEN_EXPIRE_MINUTES
                ELSE issue.expires_delta[1]

\* C10, what the code does: the token decodes to the matching claims at every
\* time up to and including issue time + lifetime, and to None after it, where
\* the lifetime of a token asked for with ttl 0 is the configured default.
TokenValidThroughExpiry ==
    (token # None /\ decoded # None) =>
        IF decoded[1].at <= token[1].at + EffectiveTtl
        THEN ClaimsMatch(decoded[1].payload)
        ELSE decoded[1].payload = None

\* a token asked for with ttl 0 has just been decoded to its claims
ZeroTtlTokenAccepted ==
    /\ token # None
    /\ decoded # None
    /\ issue.expires_delta = Some(0)
    /\ ClaimsMatch(decoded[1].payload)

\* the rows of tenant T in store d
RowsOf(d, T) == {r \in AllRows(d) : r.tenant_id = T}

\* C6: whatever the identities of tenant T1 create, update and delete, every
\* request of an identity of tenant T2, on any route and with any ids in its
\* path and payload, is answered (status, detail and body) as in the run where
\* T1 does nothing, and T2 owns the same rows in both runs: two runs that
\* differ only in T1's operations answer T2 identically.
NonInterference ==
    /\ resp = resp2
    /\ RowsOf(db, T2) = RowsOf(db2, T2)

\* T2 has just asked for a viewing of its own property with a contact that T1
\* owns in the first run and that does not exist in the second, and got the
\* same answer in both
ForeignContactProbed ==
    /\ resp.op = "create_viewing"
    /\ resp.status = HTTP_404_NOT_FOUND
    /\ resp.detail = "Contact not found"
    /\ resp2 = resp
    /\ \E c \in DOMAIN db.contacts \ DOMAIN db2.contacts, a \in TokensOf(T2) :
          /\ db.contacts[c].tenant_id = T1
          /\ \E payload \in ViewingPayloads :
                /\ payload.contact_id = c
                /\ create_viewing(db, a, resp.id, payload, next_id, now).resp = resp

\* the answer just given is that of get_current_user
Resolved == resp.op = "get_current_user"

\* the bearer token just resolved is the one the login issued
FollowedTokenResolved ==
    /\ Resolved
    /\ token # None
    /\ resp.authorization = Some(token[1].value)

\* the tenant currently stored on the user a token was issued for
StoredTenant(tok) == db.users[SubjectOf(tok)].tenant_id

\* C11 (amended): get_current_user returns an identity only when the
\* tenant_id inside the token equals the tenant_id currently stored on the
\* user the token names; a token issued by login before its user was moved is
\* rejected, although it has not expired, for as long as the stored tenant
\* differs from the one in the token.
StaleTenantClaimRejected ==
    /\ (Resolved /\ resp.user # None) =>
          /\ resp.user[1] = db.users[SubjectOf(resp.authorization[1])]
          /\ UUID(resp.authorization[1].claims.tenant_id) = Some(resp.user[1].tenant_id)
    /\ (FollowedTokenResolved
        /\ UUID(token[1].value.claims.tenant_id) # Some(StoredTenant(token[1].value)))
       => resp.user = None

\* C11 as stated: once the user's tenant assignment has changed, the token
\* issued before the change is rejected by every later resolution.
ReassignedTokenRejected ==
    (FollowedTokenResolved /\ token[1].reassigned) => resp.user = None

\* a token that has not expired, of an active user who was moved to the other
\* tenant after the login, has just been rejected
StaleTokenRejected ==
    /\ FollowedTokenResolved
    /\ token[1].reassigned
    /\ now <= token[1].at + ACCESS_TOKEN_EXPIRE_MINUTES
    /\ db.users[SubjectOf(token[1].value)].is_active
    /\ StoredTenant(token[1].value) = "tenant_b"
    /\ token[1].value.claims.tenant_id = UuidStr("tenant_a")
    /\ resp.status = HTTP_401_UNAUTHORIZED
    /\ resp.user = None

\* a user who was moved away and back has just been resolved from the token
\* issued before the moves
MovedBackTokenAccepted ==
    /\ FollowedTokenResolved
    /\ token[1].reassigned
    /\ resp.user # None

\* a token passes verification at time t: it is signed with the server's key
\* and its expiry has not passed
Verifies(tok, t) == tok.key = JWT_SECRET /\ ~(tok.claims.exp < t)

\* the subject and tenant_id claims are present and are strings of uuids
ClaimsWellFormed(claims) ==
    /\ "sub" \in DOMAIN claims
    /\ "tenant_id" \in DOMAIN claims
    /\ DOMAIN claims.sub = {"uuid"}
    /\ DOMAIN claims.tenant_id = {"uuid"}

LoginOps == {"login", "login_json"}

\* the login route named op
LoginRoute(op, email, password) ==
    IF op = "login" THEN login(db, email, password, now)
    ELSE login_json(db, email, password, now)

\* the users that have the email, and an email that no user has
UsersWithEmail(email) == {u \in Rows(db.users) : u.email = email}
NoSuchEmail == "nobody@nowhere.com"

\* the password is wrong for every user that has the email
WrongPassword(email, password) ==
    \A u \in UsersWithEmail(email) : ~verify_password(password, u.hashed_password)

\* the InvalidCredentials answer of a login route
InvalidCredentials(op) ==
    LoginResponse(op, HTTP_401_UNAUTHORIZED, "Incorrect email or password",
                  [WWW_Authenticate |-> "Bearer"], <<>>)

\* C13, what the code does: on both login routes an email that matches no user
\* is answered InvalidCredentials (401) with no token and the store unchanged,
\* and so is, identically, a wrong password for an email that exactly one user
\* has; an email that several users have (users of different tenants) is
\* answered 500 whatever the password.
CredentialUniformityForUniqueEmail ==
    /\ resp = Idle =>
          \A op \in LoginOps, email \in LoginEmails, password \in LoginPasswords :
              LET r == LoginRoute(op, email, password)
                  matched == Cardinality(UsersWithEmail(email))
              IN /\ r.db = db
                 /\ matched = 0 => r.resp = InvalidCredentials(op)
                 /\ (matched = 1 /\ WrongPassword(email, password)) =>
                        r.resp = LoginRoute(op, NoSuchEmail, password).resp
                 /\ matched > 1 => r.resp.status = HTTP_500_INTERNAL
    /\ (resp.op \in LoginOps /\ resp.status # HTTP_200_OK) =>
          (db = prev /\ resp.body = <<>>)

\* C13 as stated: a wrong password for an existing user's email is answered
\* exactly as an email that matches no user, InvalidCredentials (401).
CredentialUniformity ==
    resp = Idle =>
        \A op \in LoginOps, email \in LoginEmails, password \in LoginPasswords :
            (UsersWithEmail(email) # {} /\ WrongPassword(email, password)) =>
                /\ LoginRoute(op, email, password).resp = InvalidCredentials(op)
                /\ LoginRoute(op, email, password).resp
                      = LoginRoute(op, NoSuchEmail, password).resp

\* a login with a wrong password for the email of exactly one user has just
\* been answered as a login with an email nobody has is
WrongPasswordRefused ==
    /\ resp.op = "login"
    /\ resp.status = HTTP_401_UNAUTHORIZED
    /\ \E email \in LoginEmails :
          /\ Cardinality(UsersWithEmail(email)) = 1
          /\ login(db, email, "wrongpassword", now).resp = resp
          /\ login(db, NoSuchEmail, "wrongpassword", now).resp = resp

\* a login with a wrong password for an email that two users have has just
\* ended as 500
SharedEmailLoginFailed ==
    /\ resp.op = "login"
    /\ resp.status = HTTP_500_INTERNAL
    /\ \E email \in LoginEmails :
          /\ Cardinality(UsersWithEmail(email)) = 2
          /\ WrongPassword(email, "wrongpassword")

\* the InactiveAccount answer of a login route
InactiveAccount(op) ==
    LoginResponse(op, HTTP_403_FORBIDDEN, "Inactive user account", <<>>, <<>>)

\* the answer carries a token with the user's id and tenant_id
TokenFor(r, u) ==
    /\ r.status = HTTP_200_OK
    /\ Len(r.body) = 1
    /\ r.body[1].access_token.claims.sub = UuidStr(u.id)
    /\ r.body[1].access_token.claims.tenant_id = UuidStr(u.tenant_id)
    /\ decode_access_token(r.body[1].access_token, now) # None

\* C14, what the code does: when exactly one user has the email, a wrong
\* password is answered InvalidCredentials whether the user is active or not,
\* the correct password of an inactive user InactiveAccount (403) with no token,
\* and the correct password of an active user a token carrying the user's id and
\* tenant_id; no other login succeeds; when several users have the email the
\* login ends as 500, inactive user and correct password included.
LoginOutcomeForUniqueEmail ==
    resp = Idle =>
        \A op \in LoginOps, email \in LoginEmails \cup {NoSuchEmail},
           password \in LoginPasswords :
            LET r == LoginRoute(op, email, password).resp
                found == UsersWithEmail(email)
            IN /\ \A u \in found :
                    found = {u} =>
                       IF ~verify_password(password, u.hashed_password)
                       THEN r = InvalidCredentials(op)
                       ELSE IF ~u.is_active THEN r = InactiveAccount(op)
                       ELSE TokenFor(r, u)
               /\ Cardinality(found) > 1 =>
                    (r.status = HTTP_500_INTERNAL /\ r.body = <<>>)
               /\ r.status = HTTP_200_OK =>
                    \E u \in found :
                        /\ found = {u}
                        /\ u.is_active
                        /\ verify_password(password, u.hashed_password)

\* C14 as stated: a login for an inactive user is answered InactiveAccount with
\* the correct password and InvalidCredentials with a wrong one, in both cases
\* without a token.
InactiveLoginRefused ==
    resp = Idle =>
        \A op \in LoginOps, email \in LoginEmails, password \in LoginPasswords :
            \A u \in UsersWithEmail(email) :
                ~u.is_active =>
                    LoginRoute(op, email, password).resp
                      = IF verify_password(password, u.hashed_password)
                        THEN InactiveAccount(op)
                        ELSE InvalidCredentials(op)

\* a login with the correct password of an inactive user whose email another
\* tenant's user has too has just ended as 500
InactiveSharedEmailLoginFailed ==
    /\ resp.op = "login"
    /\ resp.status = HTTP_500_INTERNAL
    /\ \E email \in LoginEmails :
          /\ login(db, email, "password123", now).resp = resp
          /\ \E u \in UsersWithEmail(email) :
                ~u.is_active /\ verify_password("password123", u.hashed_password)

\* a login with the correct password of an inactive user, the only user with
\* the email, has just been answered InactiveAccount
InactiveAccountAnswered ==
    /\ resp = InactiveAccount("login")
    /\ \E email \in LoginEmails :
          \E u \in UsersWithEmail(email) :
              /\ UsersWithEmail(email) = {u}
              /\ ~u.is_active
              /\ login(db, email, "password123", now).resp = resp

\* a login has just succeeded with a token for an active user
LoginSucceeded ==
    /\ resp.op = "login"
    /\ \E u \in Rows(db.users) :
          /\ u.is_active
          /\ TokenFor(resp, u)
          /\ login(db, u.email, "password123", now).resp = resp

\* the token is one the server issued, has not expired and names a user of the
\* store
ValidToken(authorization) ==
    /\ authorization # None
    /\ Verifies(authorization[1], now)
    /\ ClaimsWellFormed(authorization[1].claims)
    /\ SubjectOf(authorization[1]) \in DOMAIN db.users

\* the store with the users and no row of any tenant
NoTenantData == [InitDb EXCEPT !.users = db.users]

\* C15: every route on contacts, deals, properties and viewings called with no
\* token or with an invalid token answers 401, with no entity in the body, the
\* answer it gives on a store without any tenant data, and the store unchanged;
\* called with a valid token of an inactive user it answers 403, with no entity
\* and the store unchanged.
BearerTokenRequired ==
    /\ resp = Idle =>
          \A op \in WriteRoutes \cup ReadRoutes, a \in Readers :
              LET x == CHOOSE y \in Inputs(op) : TRUE
                  r == api_router(db, op, a, x, next_id, now)
              IN /\ ~ValidToken(a) =>
                      /\ r.resp.status = HTTP_401_UNAUTHORIZED
                      /\ r.resp.body = <<>>
                      /\ r.resp = api_router(NoTenantData, op, a, x, next_id, now).resp
                      /\ r.db = db
                 /\ (ValidToken(a) /\ ~db.users[SubjectOf(a[1])].is_active) =>
                      /\ r.resp.status = HTTP_403_FORBIDDEN
                      /\ r.resp.body = <<>>
                      /\ r.db = db
    /\ (resp # Idle /\ resp.tenant = None) =>
          /\ resp.status \in {HTTP_401_UNAUTHORIZED, HTTP_403_FORBIDDEN}
          /\ resp.body = <<>>
          /\ db = prev

\* a list of contacts asked for without a valid token has just been answered
\* 401 although the store holds contacts
UnauthenticatedListRefused ==
    /\ resp.op = "list_contacts"
    /\ resp.tenant = None
    /\ resp.status = HTTP_401_UNAUTHORIZED
    /\ db.contacts # EmptyTable

\* a delete asked for with the token of an inactive user has just been answered
\* 403 and the contacts are all still there
InactiveDeleteRefused ==
    /\ resp.op = "delete_contact"
    /\ resp.status = HTTP_403_FORBIDDEN
    /\ db.contacts # EmptyTable
    /\ db = prev

\* the skip and limit parameters the property is checked for: left out, below,
\* at and above each bound
SkipCases == {None, Some(-1), Some(0), Some(1)}
LimitCases == {None, Some(0), Some(1), Some(LimitDefault), Some(LimitMax),
               Some(LimitMax + 1)}

\* what the three paginated lists answer to a request for the page
PagedLists(a, skip, limit) ==
    {list_contacts(db, a, None, skip, limit, now),
     list_deals(db, a, None, None, skip, limit, now),
     list_properties(db, a, skip, limit, now)}

\* an ordered result longer than the default window
LongResult == [i \in 1..(LimitDefault + 2) |-> i]

\* C16: list_contacts, list_deals and list_properties reject a request whose
\* limit is below 1 or above 1000 or whose skip is below 0, as invalid input and
\* without any entity in the answer; they accept every request with
\* 1 <= limit <= 1000 and skip >= 0; a request without limit is answered as one
\* with limit = 100 is, one without skip as one with skip = 0 is, and the window
\* of a request without either is the first 100 rows of the ordered result.
PaginationBounds ==
    /\ resp = Idle =>
          \A a \in ListIdentities :
              \A skip \in SkipCases, limit \in LimitCases :
                  LET given_skip == Query(SkipDefault, skip)
                      given_limit == Query(LimitDefault, limit)
                      invalid == \/ given_limit < 1
                                 \/ given_limit > 1000
                                 \/ given_skip < 0
                  IN /\ \A r \in PagedLists(a, skip, limit) :
                          /\ r.db = db
                          /\ IF invalid
                             THEN /\ r.resp.status = HTTP_422_UNPROCESSABLE
                                  /\ r.resp.body = <<>>
                             ELSE r.resp.status = HTTP_200_OK
                     /\ PagedLists(a, skip, limit)
                          = PagedLists(a, Some(given_skip), Some(given_limit))
    /\ resp = Idle =>
          OffsetLimit(LongResult, Query(SkipDefault, None), Query(LimitDefault, None))
            = [i \in 1..100 |-> i]
    /\ (resp.op \in {"list_contacts", "list_deals", "list_properties"}
          /\ resp.status = HTTP_422_UNPROCESSABLE) =>
          (resp.body = <<>> /\ db = prev)

\* a list of contacts asked for with limit = 0 by a tenant that has contacts has
\* just been rejected
LimitZeroRejected ==
    /\ resp.op = "list_contacts"
    /\ resp.status = HTTP_422_UNPROCESSABLE
    /\ \E a \in ListIdentities :
          /\ list_contacts(db, a, None, Some(0), Some(0), now).resp = resp
          /\ list_contacts(db, a, None, Some(0), Some(1), now).resp.body # <<>>

\* a list of contacts asked for without skip and limit has just been answered
\* with the contacts of the tenant
DefaultPageListed ==
    /\ resp.op = "list_contacts"
    /\ resp.status = HTTP_200_OK
    /\ Len(resp.body) > 1
    /\ \E a \in ListIdentities :
          /\ list_contacts(db, a, None, None, None, now).resp = resp
          /\ list_contacts(db, a, None, Some(0), Some(100), now).resp = resp

\* the place of row e among rows, newest first
Rank(rows, e) == Cardinality({r \in rows : r.created_at > e.created_at}) + 1

\* body is positions skip+1 .. skip+limit of rows sorted by creation time
\* descending
IsWindow(body, rows, skip, limit) ==
    LET left == IF Cardinality(rows) > skip THEN Cardinality(rows) - skip ELSE 0
    IN /\ Len(body) = IF limit < left THEN limit ELSE left
       /\ \A i \in 1..Len(body) : body[i] \in rows /\ Rank(rows, body[i]) = skip + i

\* the rows of tenant T that match the filters of a list
MatchingContacts(T, search) ==
    {c \in Rows(db.contacts) :
        /\ c.tenant_id = T
        /\ search \in {None, Some(<<>>)} \/ ilike(c.first_name, search[1])}
MatchingDeals(T, stage, contact_id) ==
    {d \in Rows(db.deals) :
        /\ d.tenant_id = T
        /\ stage = None \/ d.stage = stage[1]
        /\ contact_id = None \/ d.contact_id = contact_id[1]}
ViewingsOf(T, property_id) ==
    {v \in Rows(db.viewings) : v.tenant_id = T /\ v.property_id = property_id}

\* list_contacts, list_deals and list_properties answer every valid page with
\* the window of the tenant's matching rows, newest first
PagedListsNewestFirst ==
    resp = Idle =>
        \A a \in ListIdentities, page \in ValidPages :
            LET T == ActingTenant(a)[1]
                skip == Query(SkipDefault, page[1])
                limit == Query(LimitDefault, page[2])
            IN /\ \A search \in SearchInputs :
                    IsWindow(list_contacts(db, a, search, page[1], page[2], now).resp.body,
                             MatchingContacts(T, search), skip, limit)
               /\ \A f \in ListDealFilters :
                    IsWindow(list_deals(db, a, f[1], f[2], page[1], page[2], now).resp.body,
                             MatchingDeals(T, f[1], f[2]), skip, limit)
               /\ IsWindow(list_properties(db, a, page[1], page[2], now).resp.body,
                           {p \in Rows(db.properties) : p.tenant_id = T}, skip, limit)

\* the properties the identity can list the viewings of
OwnProperties(a) ==
    {id \in DOMAIN db.properties : Some(db.properties[id].tenant_id) = ActingTenant(a)}

\* C17, what the code does: list_contacts, list_deals and list_properties
\* return the tenant's rows that match the filters, sorted by creation time
\* descending, restricted to positions skip+1 .. skip+limit; list_viewings
\* returns all the tenant's viewings of the property, without a window, sorted
\* by viewing_date ascending.
ListOrderAndWindow ==
    /\ PagedListsNewestFirst
    /\ resp = Idle =>
          \A a \in ListIdentities, ties \in {"ASC", "DESC"} :
              \A id \in OwnProperties(a) :
                  LET body == list_viewings(db, a, id, ties, now).resp.body
                      rows == ViewingsOf(ActingTenant(a)[1], id)
                  IN /\ Len(body) = Cardinality(rows)
                     /\ {body[i] : i \in 1..Len(body)} = rows
                     /\ \A i, j \in 1..Len(body) :
                           i < j => body[i].viewing_date <= body[j].viewing_date

\* C17 as stated: the four lists, list_viewings included, return the rows sorted
\* by creation time descending, restricted to positions skip+1 .. skip+limit
\* (list_viewings takes no skip and limit: the defaults).
ListOrderUniform ==
    /\ PagedListsNewestFirst
    /\ resp = Idle =>
          \A a \in ListIdentities, ties \in {"ASC", "DESC"} :
              \A id \in OwnProperties(a) :
                  IsWindow(list_viewings(db, a, id, ties, now).resp.body,
                           ViewingsOf(ActingTenant(a)[1], id), SkipDefault, LimitDefault)

\* the viewings of a property have just been listed, the one created first
\* before the one created after it
ViewingsListedOldestFirst ==
    /\ resp.op = "list_viewings"
    /\ resp.status = HTTP_200_OK
    /\ Len(resp.body) = 2
    /\ resp.body[1].created_at < resp.body[2].created_at

\* the second newest of three contacts of a tenant has just been listed alone,
\* for skip = 1 and limit = 1
SecondNewestContactListed ==
    /\ resp.op = "list_contacts"
    /\ resp.status = HTTP_200_OK
    /\ Len(resp.body) = 1
    /\ Cardinality(MatchingContacts(resp.tenant[1], None)) = 3
    /\ Rank(MatchingContacts(resp.tenant[1], None), resp.body[1]) = 2

\* new is old with exactly the fields of the update schema that the patch holds
\* set to the values the patch gives
MergePatched(old, new, patch, fields) ==
    /\ DOMAIN new = DOMAIN old
    /\ \A k \in DOMAIN old :
          new[k] = IF k \in fields \cap DOMAIN patch THEN patch[k][1] ELSE old[k]

\* the identities that write, one of each tenant
Updaters == {a \in Writers : ~IsNone(ActingTenant(a))}

EmptyPatchApplied ==
    /\ resp.op = "update_property"
    /\ resp.status = HTTP_200_OK
    /\ \E a \in Updaters : update_property(prev, a, resp.id, <<>>, now).resp = resp
    /\ db = prev

\* the patches of a deal that name a contact and hold no null
RepointingPatches ==
    {p \in DealPatches :
        /\ "contact_id" \in DOMAIN p
        /\ \A k \in DOMAIN p : ~IsNone(p[k])}

\* C19: update_deal of a deal of the identity's tenant with a patch whose
\* contact_id names a contact of another tenant or no contact is answered 404
\* and leaves the store as it was, the other fields of the patch included; with
\* a contact_id that names a contact of the identity's tenant (and no null in
\* the patch) it succeeds and the deal references that contact.
ReferenceRevalidated ==
    /\ resp = Idle =>
          \A a \in Updaters, patch \in RepointingPatches :
              \A id \in DOMAIN db.deals :
                  LET T == ActingTenant(a)[1]
                      r == update_deal(db, a, id, patch, now)
                  IN db.deals[id].tenant_id = T =>
                        IF OwnsContact(db, T, patch.contact_id[1])
                        THEN /\ r.resp.status = HTTP_200_OK
                             /\ r.db.deals[id].contact_id = patch.contact_id[1]
                        ELSE /\ r.resp.status = HTTP_404_NOT_FOUND
                             /\ r.resp.body = <<>>
                             /\ r.db = db
    /\ (resp.op = "update_deal" /\ resp.status = HTTP_404_NOT_FOUND) => db = prev

\* an update of a deal that asked for another tenant's contact and for a new
\* stage has just been refused, and the deal has the stage it had
ForeignContactPatchRefused ==
    /\ resp.op = "update_deal"
    /\ resp.status = HTTP_404_NOT_FOUND
    /\ resp.id \in DOMAIN db.deals
    /\ db.deals[resp.id].stage # "NEGOTIATION"
    /\ \E a \in Updaters, c \in DOMAIN prev.contacts :
          /\ Some(prev.contacts[c].tenant_id) # resp.tenant
          /\ Some(prev.deals[resp.id].tenant_id) = resp.tenant
          /\ update_deal(prev, a, resp.id,
                         [contact_id |-> Some(c), stage |-> Some("NEGOTIATION")], now).resp
                = resp

\* an update of a deal that asked for another contact of the tenant has just
\* succeeded and the deal references that contact
OwnContactPatchApplied ==
    /\ resp.op = "update_deal"
    /\ resp.status = HTTP_200_OK
    /\ \E c \in DOMAIN prev.contacts :
          /\ c # prev.deals[resp.id].contact_id
          /\ Some(prev.contacts[c].tenant_id) = resp.tenant
          /\ db.deals[resp.id].contact_id = c

\* C20, what the code does: the expiry of the token create_access_token makes
\* is its issue time plus the ttl supplied when that ttl is not zero; it is the
\* issue time plus the configured default of 30 minutes when no ttl is supplied
\* and also when the ttl supplied is zero.
TokenExpiryDefaultsOnZero ==
    token # None =>
        /\ token[1].value.claims.iat = token[1].at
        /\ token[1].value.claims.exp = token[1].at + EffectiveTtl

\* C20 as stated: the expiry is the issue time plus the ttl for every ttl that
\* is supplied, zero included, and the issue time plus the default only when
\* none is supplied.
TokenExpiryIsIssuePlusTtl ==
    token # None =>
        token[1].value.claims.exp = token[1].at + RequestedTtl

\* a token asked for with ttl 0 has been issued with the expiry of the default
ZeroTtlTokenIssued ==
    /\ token # None
    /\ issue.expires_delta = Some(0)
    /\ token[1].value.claims.exp = token[1].at + ACCESS_TOKEN_EXPIRE_MINUTES

----------------------------------------------------------------------------
(* Token verification: app/core/security.py decode_access_token *)

\* the tokens a caller can hand to decode_access_token
PresentedTokens == {a[1] : a \in Bearers \ {None}}

\* C21 (what the code does): decode_access_token never raises and returns
\* Invalid exactly for a bad signature or an expired token; for every other
\* token it returns the claims as they were signed, whether or not subject and
\* tenant_id are present and well formed.  It is get_current_user that turns a
\* missing or malformed claim into 401, and the two extractors return the one
\* claim that is there when the other is missing.
DecodeReturnsSignedClaims ==
    /\ resp = Idle =>
          \A tok \in PresentedTokens :
              LET payload == decode_access_token(tok, now) IN
              /\ payload = (IF Verifies(tok, now) THEN Some(tok.claims) ELSE None)
              /\ (payload # None /\ ~ClaimsWellFormed(payload[1])) =>
                    LET auth == get_current_user(Some(tok), db.users, now)
                    IN auth.status = HTTP_401_UNAUTHORIZED /\ auth.user = None
              /\ get_user_id_from_token(tok, now)
                    = (IF payload # None /\ "sub" \in DOMAIN payload[1]
                       THEN Some(payload[1].sub) ELSE None)
              /\ get_tenant_id_from_token(tok, now)
                    = (IF payload # None /\ "tenant_id" \in DOMAIN payload[1]
                       THEN Some(payload[1].tenant_id) ELSE None)
    /\ (Resolved /\ resp.user # None) =>
          ClaimsWellFormed(decode_access_token(resp.authorization[1], now)[1])

\* C21 as stated: decode_access_token returns complete claims or Invalid, never
\* claims with the subject or the tenant_id missing or malformed.
DecodeAllOrNothing ==
    \A tok \in PresentedTokens :
        LET payload == decode_access_token(tok, now) IN
        payload = None \/ ClaimsWellFormed(payload[1])

\* a token signed with the server's key that carries a subject and no
\* tenant_id has just been refused by get_current_user, while
\* decode_access_token returns its claims and get_user_id_from_token its subject
PartialClaimsDecoded ==
    /\ Resolved
    /\ resp.authorization # None
    /\ resp.status = HTTP_401_UNAUTHORIZED
    /\ decode_access_token(resp.authorization[1], now) # None
    /\ "tenant_id" \notin DOMAIN decode_access_token(resp.authorization[1], now)[1]
    /\ get_user_id_from_token(resp.authorization[1], now) = Some(UuidStr(1))
    /\ get_tenant_id_from_token(resp.authorization[1], now) = None

\* C22 (what the code does): in every store, all of which satisfy the unique
\* constraint on (tenant_id, email), a login route answers a Token (200),
\* InvalidCredentials (401) or InactiveAccount (403) when at most one user has
\* the email, and ends as an unhandled internal error (500) exactly when users
\* of several tenants have it, whatever the password.
LoginTotalForUniqueEmail ==
    /\ uq_user_tenant_email(db.users)
    /\ resp = Idle =>
          \A op \in LoginOps, email \in LoginEmails, password \in LoginPasswords :
              LET r == LoginRoute(op, email, password).resp IN
              /\ r.status \in {HTTP_200_OK, HTTP_401_UNAUTHORIZED, HTTP_403_FORBIDDEN,
                               HTTP_500_INTERNAL}
              /\ r.status = HTTP_500_INTERNAL <=> Cardinality(UsersWithEmail(email)) > 1
              /\ r.status = HTTP_401_UNAUTHORIZED => r = InvalidCredentials(op)
              /\ r.status = HTTP_403_FORBIDDEN => r = InactiveAccount(op)
    /\ (resp.op \in LoginOps /\ resp.status = HTTP_500_INTERNAL) =>
          \E email \in LoginEmails : Cardinality(UsersWithEmail(email)) > 1

\* C22 as stated: every login returns a Token or an AuthError, never an
\* unhandled internal error.
LoginIsTotal ==
    resp.op \in LoginOps =>
        resp.status \in {HTTP_200_OK, HTTP_401_UNAUTHORIZED, HTTP_403_FORBIDDEN}

\* a login on the json route with the correct password of an active user, whose
\* email a user of the other tenant has too, has just ended as 500
SharedEmailCorrectLoginFailed ==
    /\ resp.op = "login_json"
    /\ resp.status = HTTP_500_INTERNAL
    /\ uq_user_tenant_email(db.users)
    /\ \E u, v \in Rows(db.users) :
          /\ u.email = v.email
          /\ u.tenant_id # v.tenant_id
          /\ u.is_active
          /\ login_json(db, u.email, "password123", now).resp = resp

----------------------------------------------------------------------------
(* Outcomes of update *)

\* the patch sets one of the given fields to null explicitly
SetsNull(patch, fields) == \E k \in (DOMAIN patch) \cap fields : patch[k] = None

\* no stored row has a null in a NOT NULL column: each holds a value of the
\* column's type
NoNullStored(d) ==
    /\ \A c \in Rows(d.contacts) : c.first_name \in Names
    /\ \A e \in Rows(d.deals) : e.contact_id \in Ids /\ e.stage \in {"NEW", "NEGOTIATION"}
    /\ \A p \in Rows(d.properties) : p.title \in {"Flat", "House"}

\* C23 (what the code does): an update by an identity of the row's tenant whose
\* payload explicitly sets a NOT NULL column to null (Contact.first_name,
\* Deal.contact_id, Deal.stage, Property.title) ends as an unhandled internal
\* error (500) with the store unchanged; without such a null it ends as the
\* updated entity (200), or for a deal whose new contact is not the tenant's,
\* NotFound (404).  No stored entity ever has a required field null.
UpdateOutcomes ==
    /\ NoNullStored(db)
    /\ resp = Idle =>
          \A a \in Updaters :
              LET T == ActingTenant(a)[1] IN
              /\ \A id \in DOMAIN db.contacts, patch \in ContactPatches :
                    db.contacts[id].tenant_id = T =>
                        update_contact(db, a, id, patch, now).resp.status
                          = IF SetsNull(patch, {"first_name"}) THEN HTTP_500_INTERNAL
                            ELSE HTTP_200_OK
              /\ \A id \in DOMAIN db.deals, patch \in DealPatches :
                    db.deals[id].tenant_id = T =>
                        update_deal(db, a, id, patch, now).resp.status
                          = IF /\ "contact_id" \in DOMAIN patch
                               /\ patch.contact_id # None
                               /\ ~OwnsContact(db, T, patch.contact_id[1])
                            THEN HTTP_404_NOT_FOUND
                            ELSE IF SetsNull(patch, {"contact_id", "stage"})
                            THEN HTTP_500_INTERNAL
                            ELSE HTTP_200_OK
              /\ \A id \in DOMAIN db.properties, patch \in PropertyPatches :
                    db.properties[id].tenant_id = T =>
                        update_property(db, a, id, patch, now).resp.status
                          = IF SetsNull(patch, {"title"}) THEN HTTP_500_INTERNAL
                            ELSE HTTP_200_OK
    /\ (resp.op \in UpdateOps /\ resp.status = HTTP_500_INTERNAL) =>
          (db = prev /\ resp.body = <<>>)

\* C23 as stated: every update ends as the updated entity, NotFound or a
\* validation error (or is refused for want of an identity), never as an
\* internal error.
UpdateOutcomesClosed ==
    resp.op \in UpdateOps =>
        resp.status \in {HTTP_200_OK, HTTP_404_NOT_FOUND, HTTP_422_UNPROCESSABLE,
                         HTTP_401_UNAUTHORIZED, HTTP_403_FORBIDDEN}

\* an update of a contact by an identity of its tenant, with first_name set to
\* null, has just ended as 500 and the contact is as it was
NullFirstNameUpdateFailed ==
    /\ resp.op = "update_contact"
    /\ resp.status = HTTP_500_INTERNAL
    /\ resp.id \in DOMAIN db.contacts
    /\ Some(db.contacts[resp.id].tenant_id) = resp.tenant
    /\ db.contacts[resp.id] = prev.contacts[resp.id]
    /\ \E a \in Updaters :
          update_contact(prev, a, resp.id, [first_name |-> None], now).resp = resp

----------------------------------------------------------------------------
(* Identity resolution is a read *)

----------------------------------------------------------------------------
(* Concurrent requests *)

RaceUpdateOps == {"update_contact", "update_deal", "update_property"}

\* the two requests were updates of the same entity and both have been
\* answered; r2 committed after r1
BothUpdated(r1, r2) ==
    /\ inflight[r1].pc = "done"
    /\ inflight[r2].pc = "done"
    /\ inflight[r1].op \in RaceUpdateOps
    /\ inflight[r2].op = inflight[r1].op
    /\ inflight[r2].id = inflight[r1].id
    /\ inflight[r1].seq < inflight[r2].seq

\* the fields both patches set, and the value a request's patch gives a field
SetByBoth(r1, r2) ==
    (DOMAIN update_data_of(inflight[r1])) \cap (DOMAIN update_data_of(inflight[r2]))
Written(r, k) == update_data_of(inflight[r])[k][1]

\* C25 (what the code does): two updates of the same entity by identities of
\* its tenant, interleaved in any order, both answer 200 and none gets a
\* conflict error; after both have committed, a field set by both patches holds
\* the value of the update that committed last if that value differs from the
\* value its session had loaded, and the value of the update that committed
\* first if it does not: the last commit then writes nothing to the column.
RacingUpdatesOutcome ==
    \A r1, r2 \in RaceSlots :
        BothUpdated(r1, r2) =>
            /\ inflight[r1].resp.status = HTTP_200_OK
            /\ inflight[r2].resp.status = HTTP_200_OK
            /\ \A k \in SetByBoth(r1, r2) :
                  RaceTable(db, inflight[r1].op)[inflight[r1].id][k]
                    = IF Written(r2, k) = inflight[r2].loaded[k]
                      THEN Written(r1, k) ELSE Written(r2, k)

\* C25 as stated: after both have committed, each field set by both patches
\* holds the value written by the update that committed last.
LastWriterWins ==
    \A r1, r2 \in RaceSlots :
        BothUpdated(r1, r2) =>
            /\ inflight[r1].resp.status = HTTP_200_OK
            /\ inflight[r2].resp.status = HTTP_200_OK
            /\ \A k \in SetByBoth(r1, r2) :
                  RaceTable(db, inflight[r1].op)[inflight[r1].id][k] = Written(r2, k)

\* two updates of contact 1 have both been answered 200; the one that committed
\* last asked for the first_name its session had loaded, and the contact has the
\* first_name the other one wrote
LastUpdateLost ==
    \E r1, r2 \in RaceSlots :
        /\ BothUpdated(r1, r2)
        /\ inflight[r1].op = "update_contact"
        /\ inflight[r1].resp.status = HTTP_200_OK
        /\ inflight[r2].resp.status = HTTP_200_OK
        /\ Written(r2, "first_name") = inflight[r2].loaded.first_name
        /\ db.contacts[1].first_name = Written(r1, "first_name")
        /\ db.contacts[1].first_name # Written(r2, "first_name")

\* two updates of property 4 with different titles have both been answered 200
\* and the property has the title of the one that committed last
LastTitleKept ==
    \E r1, r2 \in RaceSlots :
        /\ BothUpdated(r1, r2)
        /\ inflight[r1].op = "update_property"
        /\ Written(r1, "title") # Written(r2, "title")
        /\ db.properties[4].title = Written(r2, "title")

----------------------------------------------------------------------------
(* Life of an issued token *)

\* the user row the followed token was issued for, as stored now
FollowedUser == db.users[SubjectOf(token[1].value)]

\* C26 (amended): there is no revocation list: the token a login issued for
\* user u is resolved to u's identity at a time t exactly when its expiry has
\* not passed, u is active and u's stored tenant is the one the token names.
\* Expiry, deactivation of u and a stored tenant that differs from the
\* token's are the only reasons why an issued token does not resolve; no
\* later login, resolution or change to another user ends it.
TokenAcceptedWhile ==
    FollowedTokenResolved =>
        LET tok == token[1].value IN
        /\ (resp.user # None) <=>
              /\ ~(tok.claims.exp < now)
              /\ FollowedUser.is_active
              /\ UUID(tok.claims.tenant_id) = Some(FollowedUser.tenant_id)
        /\ resp.user # None => resp.user = Some(FollowedUser)
        /\ (~(tok.claims.exp < now) /\ ~FollowedUser.is_active)
              => resp.status = HTTP_403_FORBIDDEN

\* C26 as stated: before its expiry an issued token is accepted by every
\* resolution unless its user's tenant assignment has changed.
AcceptedUntilExpiryUnlessReassigned ==
    (FollowedTokenResolved
     /\ now < token[1].value.claims.exp
     /\ ~token[1].reassigned)
    => resp.user # None

\* the token of a user who was switched off after the login, whose tenant
\* never changed, has just been refused before its expiry
DeactivatedTokenRefused ==
    /\ FollowedTokenResolved
    /\ ~token[1].reassigned
    /\ now < token[1].value.claims.exp
    /\ ~FollowedUser.is_active
    /\ resp.status = HTTP_403_FORBIDDEN
    /\ resp.user = None

----------------------------------------------------------------------------
(* Rejected requests *)

\* the routes that can answer NotFound
NotFoundOps ==
    GetOps \cup UpdateOps \cup DeleteOps \cup {"create_deal", "create_viewing", "list_viewings"}

\* C27: a rejected operation changes nothing: whenever get, update, delete,
\* create_deal, create_viewing or list_viewings answers NotFound (missing id,
\* another tenant's id, or a reference to another tenant's row), the stored
\* contacts, deals, properties and viewings and all their fields are as before
\* the request; another tenant's PATCH never alters a property's title.
RejectedChangesNothing ==
    /\ (resp.op \in NotFoundOps /\ resp.status = HTTP_404_NOT_FOUND)
          => /\ db = prev
             /\ resp.body = <<>>
    /\ \A p \in DOMAIN prev.properties :
          (resp.op = "update_property" /\ resp.tenant # Some(prev.properties[p].tenant_id))
             => /\ p \in DOMAIN db.properties
                /\ db.properties[p].title = prev.properties[p].title

\* a user of one tenant has just sent a PATCH with a new title for a property
\* of the other tenant: it was answered NotFound and the title is the old one
ForeignTitlePatchRejected ==
    /\ resp.op = "update_property"
    /\ resp.status = HTTP_404_NOT_FOUND
    /\ resp.id \in DOMAIN db.properties
    /\ resp.tenant # Some(db.properties[resp.id].tenant_id)
    /\ db.properties[resp.id].title # "House"
    /\ \E a \in Writers :
          update_property(prev, a, resp.id, [title |-> Some("House")], now).resp = resp

\* request r has been answered with the given status
Ended(r, op, status) ==
    /\ inflight[r].pc = "done"
    /\ inflight[r].op = op
    /\ inflight[r].resp.status = status

\* C28: no dangling deal under interleaving: however the steps of create_deal
\* or update_deal (which check that the contact exists in the tenant and
\* commit the deal only later) interleave with those of delete_contact of the
\* same contact by identities of the same tenant, no committed state holds a
\* deal whose contact_id refers to no existing contact.
NoDanglingDealUnderRace ==
    \A e \in DOMAIN db.deals :
        /\ db.deals[e].contact_id \in DOMAIN db.contacts
        /\ db.contacts[db.deals[e].contact_id].tenant_id = db.deals[e].tenant_id

\* a create_deal that found its contact has failed at its commit, because a
\* delete_contact of that contact committed in between
LateDealRefused ==
    \E r1, r2 \in RaceSlots :
        /\ Ended(r1, "create_deal", HTTP_500_INTERNAL)
        /\ Ended(r2, "delete_contact", HTTP_204_NO_CONTENT)
        /\ inflight[r1].obj.contact_id = inflight[r2].id
        /\ inflight[r2].id \notin DOMAIN db.contacts
        /\ NoDanglingDealUnderRace

\* a create_deal has committed its deal after a delete_contact of the same
\* contact had loaded the contact's deals, and the delete has then committed
\* and taken the new deal with it
RacedDealCascaded ==
    \E r1, r2 \in RaceSlots :
        /\ Ended(r2, "delete_contact", HTTP_204_NO_CONTENT)
        /\ inflight[r1].pc \in {"refresh", "done"}
        /\ inflight[r1].op = "create_deal"
        /\ inflight[r1].seq > 0
        /\ inflight[r1].seq < inflight[r2].seq
        /\ inflight[r1].obj.contact_id = inflight[r2].id
        /\ inflight[r1].id \notin inflight[r2].cascade
        /\ inflight[r1].id \notin DOMAIN db.deals

\* an update_deal that found the contact its patch names has failed at its
\* commit, because a delete_contact of that contact committed in between
LateRepointRefused ==
    \E r1, r2 \in RaceSlots :
        /\ Ended(r1, "update_deal", HTTP_500_INTERNAL)
        /\ Ended(r2, "delete_contact", HTTP_204_NO_CONTENT)
        /\ inflight[r1].obj.contact_id = inflight[r2].id
        /\ inflight[r1].loaded.contact_id # inflight[r2].id
        /\ inflight[r1].id \in DOMAIN db.deals

----------------------------------------------------------------------------
(* Viewings and the rows they refer to *)

\* C29: no dangling viewing: in every reachable state each viewing's
\* property_id and contact_id refer to an existing property and an existing
\* contact; after a delete_contact that succeeded no viewing of that contact
\* remains (although Contact declares no relationship to Viewing), and the
\* viewings of other contacts are kept.
NoDanglingViewing ==
    /\ \A v \in DOMAIN db.viewings :
          /\ db.viewings[v].property_id \in DOMAIN db.properties
          /\ db.viewings[v].contact_id \in DOMAIN db.contacts
    /\ (resp.op = "delete_contact" /\ resp.status = HTTP_204_NO_CONTENT) =>
          /\ \A v \in DOMAIN db.viewings : db.viewings[v].contact_id # resp.id
          /\ \A v \in DOMAIN prev.viewings :
                prev.viewings[v].contact_id # resp.id =>
                    (v \in DOMAIN db.viewings /\ db.viewings[v] = prev.viewings[v])

\* a contact that had a viewing has just been deleted; its property is still
\* there and the viewing is gone
ContactWithViewingDeleted ==
    /\ resp.op = "delete_contact"
    /\ resp.status = HTTP_204_NO_CONTENT
    /\ \E v \in DOMAIN prev.viewings :
          /\ prev.viewings[v].contact_id = resp.id
          /\ prev.viewings[v].property_id \in DOMAIN db.properties
          /\ v \notin DOMAIN db.viewings

----------------------------------------------------------------------------
(* Tenant deactivation *)

\* the database with the is_active flag of tenant T switched
WithTenantSwitched(d, T) == [d EXCEPT !.tenants[T].is_active = ~@]

\* the tenant row of a user
TenantOf(user) == db.tenants[user.tenant_id]

\* C30: tenant deactivation is not consulted: login answers the same (status,
\* detail, token) in two states that differ only in the is_active flag of a
\* tenant, and so does identity resolution; users of a tenant whose is_active
\* is false still log in and are resolved.
TenantFlagNotConsulted ==
    /\ resp = Idle =>
          \A T \in Tenants :
              LET other == WithTenantSwitched(db, T) IN
              /\ \A email \in LoginEmails, password \in LoginPasswords :
                    /\ login(other, email, password, now).resp
                          = login(db, email, password, now).resp
                    /\ login_json(other, email, password, now).resp
                          = login_json(db, email, password, now).resp
              /\ \A authorization \in Bearers :
                    get_current_user(authorization, other.users, now)
                       = get_current_user(authorization, db.users, now)
    /\ (resp.op \in LoginOps /\ resp.status = HTTP_200_OK) =>
          \E u \in Rows(db.users) : u.is_active /\ TokenFor(resp, u)
    /\ (Resolved /\ resp.authorization # None
        /\ \E u \in Rows(db.users) :
              /\ u.is_active
              /\ resp.authorization[1]
                    = create_access_token(u.id, u.tenant_id, None, None,
                                          resp.authorization[1].claims.iat))
       => (resp.user # None <=> ~(resp.authorization[1].claims.exp < now))

\* a user of a tenant that was switched off has just logged in
InactiveTenantLoggedIn ==
    /\ resp.op \in LoginOps
    /\ resp.status = HTTP_200_OK
    /\ \E u \in Rows(db.users) :
          /\ TokenFor(resp, u)
          /\ ~TenantOf(u).is_active

\* a user of a tenant that was switched off has just been resolved from a
\* token issued by a login
InactiveTenantResolved ==
    /\ FollowedTokenResolved
    /\ resp.user # None
    /\ ~TenantOf(resp.user[1]).is_active

====
